---- MODULE Spec2Model ----
(***************************************************************************)
(* Verification model of the hirelog backend: the practice-list counter    *)
(* ledger (api/routes/practice.py), the FAISS vector store                 *)
(* (services/faiss_store.py), the dashboard aggregate statistics           *)
(* (api/routes/dashboard.py, api/routes/experiences.py) and the in-memory  *)
(* TTL caches (api/routes/search.py, api/dependencies.py).                 *)
(*                                                                         *)
(* Each component has its own specification (SpecLedger, SpecFaiss,        *)
(* SpecStats, SpecCache); the variables of the other components are        *)
(* parked at a fixed value while one component runs.                       *)
(***************************************************************************)
EXTENDS Integers, Sequences, FiniteSets, TLC

VARIABLES
    \* ---- counter ledger (practice.py) ----
    parent,      \* the practice_lists document: the roll-up counters
    children,    \* the questions sub-collection: id -> document or NoDoc
    nextId,      \* next auto-generated question id
    lpc,         \* per request worker: position inside its handler
    loc,         \* per request worker: the handler's local variables
    applied,     \* per request worker: which writes of its request committed
    opsStarted,  \* requests started so far
    rpc,         \* position of the startup reconciliation thread
    rstats,      \* stats computed by the reconciliation scan
    \* ---- vector store (faiss_store.py) ----
    index,       \* self.index: the stored (normalised) vectors, by ordinal
    mapping,     \* self.mapping: ordinal -> external id
    indexFile,   \* content of the index file on disk
    mappingFile, \* content of the mapping file on disk
    mpc,         \* position of the mutating caller (it holds the lock while not idle)
    mloc,        \* arguments of the mutating call in progress, or of the last one
    spc,         \* position of the searching caller
    sloc,        \* locals of the search in progress
    reloaded,    \* the store was re-created from its files since the last call
    callsStarted, \* mutating calls started so far
    \* ---- wall clock ----
    clock,       \* time.time(), in ticks
    \* ---- dashboard statistics (dashboard.py, experiences.py) ----
    experiences, \* the interview_experiences collection: id -> document or NoDoc
    statsDoc,    \* the metadata/dashboard_stats document, or NoDoc
    mem_cache,   \* _mem_cache
    mem_cache_ts, \* _mem_cache_ts
    dataVer,     \* number of committed changes of the collection (history variable)
    cpc,         \* per reader: position inside _get_or_compute_stats
    cloc,        \* per reader: locals of the call
    bpc,         \* per refresh thread: position inside update_dashboard_stats_async
    bloc,        \* per refresh thread: the stats it computed
    \* ---- TTL caches (search.py, dependencies.py) ----
    search_cache, \* _search_cache: entries (key, ts, data) in insertion order
    auth_cache,  \* _auth_cache: entries (key, ts, data) in insertion order
    users,       \* the users collection: uid -> role
    apc,         \* per request: position inside get_current_user
    aloc,        \* per request: locals of get_current_user
    stored,      \* per cache and key: the last put not evicted since (history variable)
    lastGet,     \* per cache: the outcome of the get that has just run (history variable)
    evicted,     \* per cache: what the put that has just run deleted (history variable)
    \* sharing of cached objects
    heap,        \* object identity -> the dict's content, or Free
    cached,      \* per cache: the identity of the dict held under the key, or NoObj
    putval,      \* per cache: the content of the dict when it was put (history variable)
    call,        \* per request: its position and the dict it holds
    udoc,        \* the role in the user's document of the store
    \* frequent questions
    snapshots,   \* the scanned records, in the order of the scan
    run,         \* the outcome of _compute_question_frequencies on them
    firstKeyed,  \* the outcome of the first computation (history variable)
    \* submission and enrichment of one experience
    expDoc,      \* the interview_experiences document, or NoDoc
    epc,         \* per request / thread: its position
    eloc,        \* per request / thread: its locals
    created,     \* the response of create_experience, once returned
    accepted,    \* the user question texts accepted so far (history variable)
    \* ownership of mutated records
    orec,        \* the experience and the practice list (with its questions) of one owner
    ousers,      \* the uids that have a document in users
    otasks,      \* the background threads started and not yet run
    ovec,        \* number of vectors the threads added to the index
    oreq,        \* per caller: the request in hand, its response and what it wrote (history)
    oreqs,       \* number of requests started
    \* search endpoint over the experiences
    sdocs,       \* interview_experiences: id -> document, or NoDoc
    rcache,      \* _search_cache of the endpoint: entries (key, ts, data) in insertion order
    srpc,        \* per search request: its position
    srloc,       \* per search request: its parameters, locals and response
    hiddenNow,   \* the records whose soft delete has returned, not restored since (history)
    srStarted,   \* number of search requests started
    srToggles,   \* number of soft deletes and restores
    svecs,       \* the (doc_id, score) pairs the vector index yields for the query, best first
    \* user profile and the identity of a submission (users.py, experiences.py)
    profile,     \* the users document of the signed-in user
    upc,         \* where each request of the user is
    uloc,        \* the locals of each request
    submission,  \* the identity fields of the last record created, or NoDoc
    nameChanges, \* clock of every successful name change (history)
    ureqs, \* number of requests started
    \* cache keys of the search endpoint (search.py _cache_key)
    kcache,      \* the search cache: entries (key, the parameters whose result is stored)
    kreq,        \* the last request: its parameters and the parameters of the entry it was answered from
    kreqs        \* number of requests made

ledgerVars == <<parent, children, nextId, lpc, loc, applied, opsStarted, rpc, rstats>>
faissVars == <<index, mapping, indexFile, mappingFile, mpc, mloc, spc, sloc,
               reloaded, callsStarted>>

statsVars == <<experiences, statsDoc, mem_cache, mem_cache_ts, dataVer, cpc, cloc,
               bpc, bloc>>

cacheVars == <<search_cache, auth_cache, users, apc, aloc, stored, lastGet, evicted>>

aliasVars == <<heap, cached, putval, call, udoc>>

\* The variables of the components that take no part in the four above.
dedupVars == <<snapshots, run, firstKeyed>>

expVars == <<expDoc, epc, eloc, created, accepted>>

ownVars == <<orec, ousers, otasks, ovec, oreq, oreqs>>

srVars == <<sdocs, rcache, srpc, srloc, hiddenNow, srStarted, srToggles, svecs>>

usrVars == <<profile, upc, uloc, submission, nameChanges, ureqs>>

keyVars == <<kcache, kreq, kreqs>>

restVars == <<aliasVars, dedupVars, expVars, ownVars, srVars, usrVars, keyVars>>

vars == <<ledgerVars, faissVars, clock, statsVars, cacheVars, restVars>>

\* What the actions of one component leave unchanged.
notLedger == <<faissVars, clock, statsVars, cacheVars, restVars>>
notFaiss == <<ledgerVars, clock, statsVars, cacheVars, restVars>>
notStats == <<ledgerVars, faissVars, cacheVars, restVars>>
notCache == <<ledgerVars, faissVars, statsVars, restVars>>
notAlias == <<ledgerVars, faissVars, clock, statsVars, cacheVars, dedupVars, expVars, ownVars, srVars, usrVars, keyVars>>
notDedup == <<ledgerVars, faissVars, clock, statsVars, cacheVars, aliasVars, expVars, ownVars, srVars, usrVars, keyVars>>
notExp == <<ledgerVars, faissVars, clock, statsVars, cacheVars, aliasVars, dedupVars, ownVars, srVars, usrVars, keyVars>>
notOwn == <<ledgerVars, faissVars, clock, statsVars, cacheVars, aliasVars, dedupVars, expVars, srVars, usrVars, keyVars>>
notSr == <<ledgerVars, faissVars, clock, statsVars, cacheVars, aliasVars, dedupVars, expVars, ownVars, usrVars, keyVars>>
notUsr == <<ledgerVars, faissVars, clock, statsVars, cacheVars, aliasVars, dedupVars, expVars, ownVars, srVars, keyVars>>
notKey == <<ledgerVars, faissVars, clock, statsVars, cacheVars, aliasVars, dedupVars, expVars, ownVars, srVars, usrVars>>

None == "None"
\* A document that does not exist (snapshot.exists is False), or a local not yet read.
NoDoc == [exists |-> FALSE]
\* What a cache lookup gives when there is nothing to give (Python's None).
Miss == [hit |-> FALSE]

----------------------------------------------------------------------------
(***************************************************************************)
(* Counter ledger: practice lists and their questions                      *)
(***************************************************************************)

\* Bounds of the ledger model.
MaxQuestions == 2   \* question documents add_question may create
MaxOps == 3         \* requests started in one behaviour

\* Two request workers run handlers concurrently (each takes request after request).
Workers == {"w1", "w2"}
QIds == 1..MaxQuestions

\* PracticeQuestionUpdate.status is Literal["unvisited","practicing","revised"].
Statuses == {"unvisited", "practicing", "revised"}
\* Topic names: non-empty and without a dot (a dot would make
\* f"topic_distribution.{topic}" a nested field path).
Topics == {"Arrays", "Graphs"}

\* status_field of update_question / delete_question.
status_field(s) ==
    CASE s = "unvisited" -> "unvisited_count"
      [] s = "practicing" -> "practicing_count"
      [] s = "revised" -> "revised_count"

\* A map read with a default, as dict.get(key, 0).
Get(m, k) == IF k \in DOMAIN m THEN m[k] ELSE 0

\* Python round(x, 1) of the quotient n/d (d > 0), in tenths. The quotient is
\* half-way between two tenths only when d is a multiple of 16 (23/80 is
\* 28.75 percent); the float product (revised / total) * 100 can then fall on
\* either side, and half to even stands for it here. No list of the model is
\* that long.
RoundHalfEven(n, d) ==
    LET q == n \div d
        r == n - q * d
    IN  IF 2 * r < d THEN q
        ELSE IF 2 * r > d THEN q + 1
        ELSE IF q % 2 = 0 THEN q ELSE q + 1

\* _compute_revised_percent, the result in tenths of a percent.
_compute_revised_percent(revised, total) ==
    IF total <= 0 THEN 0 ELSE RoundHalfEven(revised * 1000, total)

\* The document create_practice_list writes.
NewList ==
    [question_count |-> 0, revised_count |-> 0, practicing_count |-> 0,
     unvisited_count |-> 0, topic_distribution |-> <<>>, revised_percent |-> 0]

\* Application of a set of firestore.Increment deltas on counter fields and
\* topics (topic_distribution.<t>) to the parent document, as one write; a
\* missing field counts as 0.
ApplyDeltas(doc, cd, td) ==
    [doc EXCEPT
        !.question_count = @ + Get(cd, "question_count"),
        !.unvisited_count = @ + Get(cd, "unvisited_count"),
        !.practicing_count = @ + Get(cd, "practicing_count"),
        !.revised_count = @ + Get(cd, "revised_count"),
        !.topic_distribution =
            [t \in (DOMAIN doc.topic_distribution) \cup (DOMAIN td) |->
                Get(doc.topic_distribution, t) + Get(td, t)]]

\* The counter increments add_question puts in its batch.
AddCounterUpdates(topic) ==
    [counters |-> ("question_count" :> 1) @@ ("unvisited_count" :> 1),
     topics |-> (topic :> 1)]

\* The counter increments of update_question's status-change batch; the topic
\* pair is added only when a new, different topic is given.
UpdateCounterUpdates(old_status, new_status, old_topic, new_topic) ==
    [counters |-> (status_field(old_status) :> -1) @@ (status_field(new_status) :> 1),
     topics |-> IF new_topic # None /\ new_topic # old_topic
                THEN (old_topic :> -1) @@ (new_topic :> 1)
                ELSE <<>>]

\* Faulty variant: delete_question forgetting its status counter.
DeleteCounterUpdates_NoStatus(old_status, old_topic) ==
    [counters |-> ("question_count" :> -1),
     topics |-> (old_topic :> -1)]

\* The counter increments delete_question puts in its batch.
DeleteCounterUpdates(old_status, old_topic) ==
    [counters |-> ("question_count" :> -1) @@ (status_field(old_status) :> -1),
     topics |-> (old_topic :> -1)]

\* The increments of update_question's separate topic write (no status change).
TopicOnlyUpdates(old_topic, new_topic) ==
    [counters |-> <<>>,
     topics |-> (old_topic :> -1) @@ (new_topic :> 1)]

\* The child document after question_ref.update(updates).
MergeChild(doc, st, tp) ==
    [status |-> IF st # None THEN st ELSE doc.status,
     topic |-> IF tp # None THEN tp ELSE doc.topic]

\* Faulty variant: the fixups write leaves revised_percent as it was.
ApplyFixups_StalePercent(doc, snap) ==
    LET dead == {t \in DOMAIN snap.topic_distribution : snap.topic_distribution[t] <= 0}
    IN  [doc EXCEPT
            !.topic_distribution =
                [t \in (DOMAIN doc.topic_distribution) \ dead |-> doc.topic_distribution[t]]]

\* The fixups write of delete_question: the percentage from the parent read
\* before it, and DELETE_FIELD for every topic that read showed at <= 0.
ApplyFixups(doc, snap) ==
    LET dead == {t \in DOMAIN snap.topic_distribution : snap.topic_distribution[t] <= 0}
    IN  [doc EXCEPT
            !.revised_percent =
                _compute_revised_percent(snap.revised_count, snap.question_count),
            !.topic_distribution =
                [t \in (DOMAIN doc.topic_distribution) \ dead |-> doc.topic_distribution[t]]]

\* The stats dict _recompute_and_store_list_stats derives from the children.
ScanStats(ch) ==
    LET live == {q \in QIds : ch[q] # NoDoc}
        total == Cardinality(live)
        n(s) == Cardinality({q \in live : ch[q].status = s})
        present == {ch[q].topic : q \in live}
    IN  IF total = 0 THEN NewList
        ELSE [question_count |-> total,
              revised_count |-> n("revised"),
              practicing_count |-> n("practicing"),
              unvisited_count |-> total - n("revised") - n("practicing"),
              topic_distribution |->
                  [t \in present |-> Cardinality({q \in live : ch[q].topic = t})],
              revised_percent |-> RoundHalfEven(n("revised") * 1000, total)]

\* Faulty variant: the topic counts of stats are added to the stored ones.
SetMerge_Accumulate(doc, stats) ==
    [stats EXCEPT
        !.topic_distribution =
            [t \in (DOMAIN doc.topic_distribution) \cup (DOMAIN stats.topic_distribution) |->
                Get(doc.topic_distribution, t) + Get(stats.topic_distribution, t)]]

\* list_ref.set(stats, merge=True): every leaf of stats is written; an empty
\* map is a leaf and replaces the stored map, a non-empty map is merged key
\* by key, so stored topic keys absent from stats stay.
SetMerge(doc, stats) ==
    [stats EXCEPT
        !.topic_distribution =
            IF DOMAIN stats.topic_distribution = {} THEN <<>>
            ELSE [t \in (DOMAIN doc.topic_distribution) \cup (DOMAIN stats.topic_distribution) |->
                    IF t \in DOMAIN stats.topic_distribution
                    THEN stats.topic_distribution[t]
                    ELSE doc.topic_distribution[t]]]

\* pre and last are history: the parent a recorded delete found, and what the
\* last recorded delete did.
LocInit == [qid |-> 0, status |-> None, topic |-> None, old |-> NoDoc, snap |-> NoDoc,
            pre |-> NoDoc, last |-> NoDoc]
NotApplied == [child |-> FALSE, counter |-> FALSE]
BothApplied == [child |-> TRUE, counter |-> TRUE]

LedgerInit ==
    /\ parent = NewList
    /\ children = [q \in QIds |-> NoDoc]
    /\ nextId = 1
    /\ lpc = [p \in Workers |-> "idle"]
    /\ loc = [p \in Workers |-> LocInit]
    /\ applied = [p \in Workers |-> NotApplied]
    /\ opsStarted = 0
    /\ rpc = "start"
    /\ rstats = NoDoc

\* A worker picks up a request.
CanStart(p) == lpc[p] = "idle" /\ opsStarted < MaxOps

\* The handler of worker p returns (or raises): its locals are gone.
Finish(p) ==
    /\ lpc' = [lpc EXCEPT ![p] = "idle"]
    /\ loc' = [loc EXCEPT ![p] = LocInit]
    /\ applied' = [applied EXCEPT ![p] = NotApplied]

\* ---- add_question ----
\* The batch: create the question document and increment the parent's counters.
AddQuestion(p, topic) ==
    /\ CanStart(p)
    /\ nextId \in QIds
    /\ LET u == AddCounterUpdates(topic)
       IN  parent' = ApplyDeltas(parent, u.counters, u.topics)
    /\ children' = [children EXCEPT ![nextId] = [status |-> "unvisited", topic |-> topic]]
    /\ nextId' = nextId + 1
    /\ opsStarted' = opsStarted + 1
    /\ lpc' = [lpc EXCEPT ![p] = "add_read"]
    /\ loc' = [loc EXCEPT ![p] = [LocInit EXCEPT !.qid = nextId]]
    /\ applied' = [applied EXCEPT ![p] = BothApplied]
    /\ UNCHANGED <<rpc, rstats>>
    /\ UNCHANGED notLedger

\* updated_data = list_ref.get().to_dict()
AddReadParent(p) ==
    /\ lpc[p] = "add_read"
    /\ loc' = [loc EXCEPT ![p].snap = parent]
    /\ lpc' = [lpc EXCEPT ![p] = "add_pct"]
    /\ UNCHANGED <<parent, children, nextId, applied, opsStarted, rpc, rstats>>
    /\ UNCHANGED notLedger

\* list_ref.update({"revised_percent": ...}), then the response.
AddWritePercent(p) ==
    /\ lpc[p] = "add_pct"
    /\ parent' = [parent EXCEPT !.revised_percent =
            _compute_revised_percent(loc[p].snap.revised_count, loc[p].snap.question_count)]
    /\ Finish(p)
    /\ UNCHANGED <<children, nextId, opsStarted, rpc, rstats>>
    /\ UNCHANGED notLedger

\* ---- update_question ----
\* The ownership check, question_ref.get() (404 when the question is missing:
\* nothing is written) and the choice of the write path.  `other` stands for
\* question_text / difficulty being present in the payload.
UpdateRead(p, q, st, tp, other) ==
    /\ CanStart(p)
    /\ children[q] # NoDoc
    /\ opsStarted' = opsStarted + 1
    /\ IF st = None /\ tp = None /\ ~other
       THEN \* `updates` is empty: nothing is written
            UNCHANGED <<lpc, loc>>
       ELSE /\ loc' = [loc EXCEPT ![p] =
                    [LocInit EXCEPT !.qid = q, !.status = st, !.topic = tp,
                                    !.old = children[q]]]
            /\ lpc' = [lpc EXCEPT ![p] =
                    IF st # None /\ st # children[q].status THEN "upd_batch"
                    ELSE "upd_child"]
    /\ UNCHANGED applied
    /\ UNCHANGED <<parent, children, nextId, rpc, rstats>>
    /\ UNCHANGED notLedger

\* The status-change batch: question update + counter increments, atomic.
\* batch.update of a document deleted meanwhile fails the whole batch.
UpdateBatch(p) ==
    /\ lpc[p] = "upd_batch"
    /\ LET l == loc[p]
           u == UpdateCounterUpdates(l.old.status, l.status, l.old.topic, l.topic)
       IN  IF children[l.qid] = NoDoc
           THEN /\ Finish(p)
                /\ UNCHANGED <<parent, children>>
           ELSE /\ children' = [children EXCEPT ![l.qid] = MergeChild(@, l.status, l.topic)]
                /\ parent' = ApplyDeltas(parent, u.counters, u.topics)
                /\ applied' = [applied EXCEPT ![p] = BothApplied]
                /\ lpc' = [lpc EXCEPT ![p] = "upd_read"]
                /\ UNCHANGED loc
    /\ UNCHANGED <<nextId, opsStarted, rpc, rstats>>
    /\ UNCHANGED notLedger

UpdateReadParent(p) ==
    /\ lpc[p] = "upd_read"
    /\ loc' = [loc EXCEPT ![p].snap = parent]
    /\ lpc' = [lpc EXCEPT ![p] = "upd_pct"]
    /\ UNCHANGED <<parent, children, nextId, applied, opsStarted, rpc, rstats>>
    /\ UNCHANGED notLedger

UpdateWritePercent(p) ==
    /\ lpc[p] = "upd_pct"
    /\ parent' = [parent EXCEPT !.revised_percent =
            _compute_revised_percent(loc[p].snap.revised_count, loc[p].snap.question_count)]
    /\ Finish(p)
    /\ UNCHANGED <<children, nextId, opsStarted, rpc, rstats>>
    /\ UNCHANGED notLedger

\* No status change: question_ref.update(updates) on its own (it fails when
\* the question was deleted meanwhile); a topic change is followed by a
\* separate write of the parent.
UpdateChild(p) ==
    /\ lpc[p] = "upd_child"
    /\ LET l == loc[p]
           topicChanged == l.topic # None /\ l.topic # l.old.topic
       IN  IF children[l.qid] = NoDoc
           THEN /\ Finish(p)
                /\ UNCHANGED children
           ELSE /\ children' = [children EXCEPT ![l.qid] = MergeChild(@, l.status, l.topic)]
                /\ IF topicChanged
                   THEN /\ applied' = [applied EXCEPT ![p].child = TRUE]
                        /\ lpc' = [lpc EXCEPT ![p] = "upd_topic"]
                        /\ UNCHANGED loc
                   ELSE Finish(p)
    /\ UNCHANGED <<parent, nextId, opsStarted, rpc, rstats>>
    /\ UNCHANGED notLedger

\* list_ref.update({topic_distribution.old: -1, topic_distribution.new: +1})
UpdateTopicCounters(p) ==
    /\ lpc[p] = "upd_topic"
    /\ LET u == TopicOnlyUpdates(loc[p].old.topic, loc[p].topic)
       IN  parent' = ApplyDeltas(parent, u.counters, u.topics)
    /\ Finish(p)
    /\ UNCHANGED <<children, nextId, opsStarted, rpc, rstats>>
    /\ UNCHANGED notLedger

\* ---- delete_question ----
\* The ownership check and question_ref.get() (404 when missing).
ReadQuestion(p, q, pre) ==
    /\ CanStart(p)
    /\ children[q] # NoDoc
    /\ opsStarted' = opsStarted + 1
    /\ loc' = [loc EXCEPT ![p] = [LocInit EXCEPT !.qid = q, !.old = children[q],
                                                 !.pre = pre]]
    /\ lpc' = [lpc EXCEPT ![p] = "del_batch"]
    /\ UNCHANGED <<parent, children, nextId, applied, rpc, rstats>>
    /\ UNCHANGED notLedger

DeleteRead(p, q) == ReadQuestion(p, q, NoDoc)

\* The same, the parent it finds recorded.
DeleteReadRecorded(p, q) == ReadQuestion(p, q, parent)

\* The batch: delete the question (a delete of a missing document succeeds)
\* and decrement the counters read from the question at DeleteRead.
DeleteBatch(p) ==
    /\ lpc[p] = "del_batch"
    /\ LET u == DeleteCounterUpdates(loc[p].old.status, loc[p].old.topic)
       IN  parent' = ApplyDeltas(parent, u.counters, u.topics)
    /\ children' = [children EXCEPT ![loc[p].qid] = NoDoc]
    /\ applied' = [applied EXCEPT ![p] = BothApplied]
    /\ lpc' = [lpc EXCEPT ![p] = "del_read"]
    /\ UNCHANGED <<nextId, loc, opsStarted, rpc, rstats>>
    /\ UNCHANGED notLedger

DeleteReadParent(p) ==
    /\ lpc[p] = "del_read"
    /\ loc' = [loc EXCEPT ![p].snap = parent]
    /\ lpc' = [lpc EXCEPT ![p] = "del_fix"]
    /\ UNCHANGED <<parent, children, nextId, applied, opsStarted, rpc, rstats>>
    /\ UNCHANGED notLedger

\* list_ref.update(fixups); return {"status": "deleted"}
DeleteFixups(p) ==
    /\ lpc[p] = "del_fix"
    /\ parent' = ApplyFixups(parent, loc[p].snap)
    /\ lpc' = [lpc EXCEPT ![p] = "idle"]
    /\ loc' = [loc EXCEPT ![p] =
                   [LocInit EXCEPT !.last =
                       IF loc[p].pre = NoDoc THEN NoDoc
                       ELSE [status |-> loc[p].old.status, before |-> loc[p].pre,
                             after |-> parent']]]
    /\ applied' = [applied EXCEPT ![p] = NotApplied]
    /\ UNCHANGED <<children, nextId, opsStarted, rpc, rstats>>
    /\ UNCHANGED notLedger

\* ---- startup reconciliation (repair_all_practice_list_stats) ----
\* questions = list(questions_ref.stream()) and the stats derived from it.
RepairScan ==
    /\ rpc = "start"
    /\ rstats' = ScanStats(children)
    /\ rpc' = "write"
    /\ UNCHANGED <<parent, children, nextId, lpc, loc, applied, opsStarted>>
    /\ UNCHANGED notLedger

\* list_ref.set(stats, merge=True)
RepairWrite ==
    /\ rpc = "write"
    /\ parent' = SetMerge(parent, rstats)
    /\ rpc' = "done"
    /\ rstats' = NoDoc
    /\ UNCHANGED <<children, nextId, lpc, loc, applied, opsStarted>>
    /\ UNCHANGED notLedger

NextLedger ==
    \/ \E p \in Workers, t \in Topics : AddQuestion(p, t)
    \/ \E p \in Workers : AddReadParent(p)
    \/ \E p \in Workers : AddWritePercent(p)
    \/ \E p \in Workers, q \in QIds, st \in Statuses \cup {None},
          tp \in Topics \cup {None}, other \in BOOLEAN : UpdateRead(p, q, st, tp, other)
    \/ \E p \in Workers : UpdateBatch(p)
    \/ \E p \in Workers : UpdateReadParent(p)
    \/ \E p \in Workers : UpdateWritePercent(p)
    \/ \E p \in Workers : UpdateChild(p)
    \/ \E p \in Workers : UpdateTopicCounters(p)
    \/ \E p \in Workers, q \in QIds : DeleteRead(p, q)
    \/ \E p \in Workers : DeleteBatch(p)
    \/ \E p \in Workers : DeleteReadParent(p)
    \/ \E p \in Workers : DeleteFixups(p)

\* The requests together with the startup reconciliation thread (main.py _bg_repair).
NextRepair == NextLedger \/ RepairScan \/ RepairWrite

\* One request at a time: a single worker, its deletes recorded.
NextSequential ==
    \/ \E t \in Topics : AddQuestion("w1", t)
    \/ AddReadParent("w1")
    \/ AddWritePercent("w1")
    \/ \E q \in QIds, st \in Statuses \cup {None}, tp \in Topics \cup {None},
          other \in BOOLEAN : UpdateRead("w1", q, st, tp, other)
    \/ UpdateBatch("w1")
    \/ UpdateReadParent("w1")
    \/ UpdateWritePercent("w1")
    \/ UpdateChild("w1")
    \/ UpdateTopicCounters("w1")
    \/ \E q \in QIds : DeleteReadRecorded("w1", q)
    \/ DeleteBatch("w1")
    \/ DeleteReadParent("w1")
    \/ DeleteFixups("w1")

\* No request has a batch it still has to commit.
NoBatchPending == \A p \in Workers : lpc[p] \notin {"upd_batch", "del_batch"}

StatusSum(doc) == doc.unvisited_count + doc.practicing_count + doc.revised_count

\* C1: for every interleaving of concurrent add_question, delete_question and
\* update_question requests on one list, once all their batched writes have
\* committed the parent has
\* question_count = unvisited_count + practicing_count + revised_count.
C1_CounterSum == NoBatchPending => parent.question_count = StatusSum(parent)

\* Both workers have committed a batch on the same question concurrently (each
\* read the question before the other's batch), and the counters have drifted
\* from the children.
C1_Witness ==
    /\ \A p \in Workers : lpc[p] \in {"upd_read", "upd_pct", "del_read", "del_fix"}
    /\ loc["w1"].qid = loc["w2"].qid
    /\ loc["w1"].old = loc["w2"].old
    /\ parent # [ScanStats(children) EXCEPT !.revised_percent = parent.revised_percent,
                                           !.topic_distribution = parent.topic_distribution]

\* C2: every request that changes a roll-up counter applies its child write and
\* its counter adjustment as one atomic batch: in no state has a request's child
\* mutation been committed without its counter adjustment, or the reverse.
C2_AtomicMutation == \A p \in Workers : applied[p].child = applied[p].counter

\* ---- reconciliation run twice ----
\* The scan of the first run; the children it saw are recorded.
RepairScanRecorded ==
    /\ rpc = "start"
    /\ rstats' = [scan |-> ScanStats(children), kids |-> children]
    /\ rpc' = "write"
    /\ UNCHANGED <<parent, children, nextId, lpc, loc, applied, opsStarted>>
    /\ UNCHANGED notLedger

\* The write of the first run; the parent it leaves is recorded.
RepairWriteRecorded ==
    /\ rpc = "write"
    /\ parent' = SetMerge(parent, rstats.scan)
    /\ rpc' = "again"
    /\ rstats' = [first |-> parent', kids |-> rstats.kids,
                  quiet |-> children = rstats.kids]
    /\ UNCHANGED <<children, nextId, lpc, loc, applied, opsStarted>>
    /\ UNCHANGED notLedger

\* The scan of the second run.
RepairScanAgain ==
    /\ rpc = "again"
    /\ rstats' = [first |-> rstats.first, scan |-> ScanStats(children),
                  quiet |-> rstats.quiet /\ children = rstats.kids]
    /\ rpc' = "write_again"
    /\ UNCHANGED <<parent, children, nextId, lpc, loc, applied, opsStarted>>
    /\ UNCHANGED notLedger

\* The write of the second run.
RepairWriteAgain ==
    /\ rpc = "write_again"
    /\ parent' = SetMerge(parent, rstats.scan)
    /\ rpc' = "done"
    /\ rstats' = [first |-> rstats.first, second |-> parent',
                  quiet |-> rstats.quiet /\ parent = rstats.first]
    /\ UNCHANGED <<children, nextId, lpc, loc, applied, opsStarted>>
    /\ UNCHANGED notLedger

\* Concurrent add_question and delete_question requests together with a
\* reconciliation that runs twice.
NextReconcile ==
    \/ \E p \in Workers, t \in Topics : AddQuestion(p, t)
    \/ \E p \in Workers : AddReadParent(p)
    \/ \E p \in Workers : AddWritePercent(p)
    \/ \E p \in Workers, q \in QIds : DeleteRead(p, q)
    \/ \E p \in Workers : DeleteBatch(p)
    \/ \E p \in Workers : DeleteReadParent(p)
    \/ \E p \in Workers : DeleteFixups(p)
    \/ RepairScanRecorded
    \/ RepairWriteRecorded
    \/ RepairScanAgain
    \/ RepairWriteAgain

\* C17: when no child changed from the scan of the first run of
\* _recompute_and_store_list_stats on, a second run that finds the parent as
\* the first run left it leaves it in exactly that state.
C17_RepairIdempotent ==
    (rpc = "done" /\ rstats # NoDoc /\ rstats.quiet) => rstats.second = rstats.first

\* The first run repaired counters that had drifted from the children and
\* kept a stale topic key; the second run, right after it, has written too.
C17_Witness ==
    /\ rpc = "done"
    /\ rstats # NoDoc
    /\ rstats.quiet
    /\ parent = rstats.second
    /\ parent.question_count > 0
    /\ DOMAIN parent.topic_distribution # DOMAIN ScanStats(children).topic_distribution

\* The counters of the other two statuses.
OtherStatuses(s) == Statuses \ {s}

\* p, in tenths of a percent, is 100 * revised / total rounded to one decimal
\* (0 when total is 0).
IsPercentOf(p, revised, total) ==
    IF total <= 0 THEN p = 0
    ELSE /\ 2 * (p * total - 1000 * revised) <= total
         /\ 2 * (1000 * revised - p * total) <= total

\* The parent of the example: 5 questions, 2 of them revised.
FiveTwo ==
    [question_count |-> 5, revised_count |-> 2, practicing_count |-> 1,
     unvisited_count |-> 2, topic_distribution |-> ("Arrays" :> 3) @@ ("Graphs" :> 2),
     revised_percent |-> 400]

\* delete_question of a revised child of FiveTwo, with no other request: the
\* batch, then the fixups computed from the parent read after the batch.
FiveTwoDeleted ==
    LET u == DeleteCounterUpdates("revised", "Graphs")
        afterBatch == ApplyDeltas(FiveTwo, u.counters, u.topics)
    IN  ApplyFixups(afterBatch, afterBatch)

----------------------------------------------------------------------------
(***************************************************************************)
(* Vector store: FaissStore                                                *)
(***************************************************************************)

\* Bounds of the vector-store model.
MaxCalls == 2      \* mutating calls (add_vector, rebuild) in one behaviour
MaxK == 2          \* largest k given to search

\* The embeddings callers pass (all of the index dimension), and the ids.
Vectors == {<<0, 2>>, <<3, 4>>}
DocIds == {"a", "b"}
Queries == {<<1, 0>>, <<3, 4>>}
Ks == 1..MaxK

\* The argument pairs (vectors, doc_ids) rebuild is called with: empty lists,
\* lists of equal length (distinct and repeated ids), and lists of different
\* lengths (rebuild does not compare them).
RebuildArgs ==
    { <<(<<>>), (<<>>)>>,
      <<(<< <<3, 4>>, <<0, 2>> >>), (<<"a", "b">>)>>,
      <<(<< <<0, 2>>, <<3, 4>> >>), (<<"b", "b">>)>>,
      <<(<< <<0, 2>>, <<3, 4>> >>), (<<"a">>)>>,
      <<(<< <<0, 2>> >>), (<<"a", "b">>)>> }

\* settings.EMBEDDING_DIM, here the length of the embeddings above.
Dimension == Cardinality(UNION {DOMAIN v : v \in Vectors})

RECURSIVE DotFrom(_, _, _)
DotFrom(a, b, i) == IF i > Len(a) THEN 0 ELSE a[i] * b[i] + DotFrom(a, b, i + 1)
\* Inner product.
Dot(a, b) == DotFrom(a, b, 1)

\* Euclidean norm of the embeddings and queries above (all are integers).
Norm ==
    [v \in Vectors \cup Queries |->
        CHOOSE r \in 0..Dot(v, v) : r * r <= Dot(v, v) /\ (r + 1) * (r + 1) > Dot(v, v)]

RECURSIVE Product(_)
Product(S) == IF S = {} THEN 1 ELSE LET x == CHOOSE y \in S : TRUE IN x * Product(S \ {x})
\* Unit vectors are held in fixed point: Unit stands for 1.0.  It is a multiple
\* of every norm in use, so normalisation is exact.
Unit == Product({Norm[v] : v \in Vectors \cup Queries} \ {0})

\* faiss.normalize_L2 of one row: a zero row is left as it is.
normalize_L2(v) ==
    IF Norm[v] = 0 THEN v ELSE [i \in DOMAIN v |-> (v[i] * Unit) \div Norm[v]]

\* The score faiss pads a result with when the index holds fewer than k vectors.
NoScore == 0 - (Unit * Unit) - 1

\* IndexFlatIP scores every stored vector against the query.
RECURSIVE Scores(_, _)
Scores(xb, q) ==
    IF xb = <<>> THEN <<>>
    ELSE Append(Scores(SubSeq(xb, 1, Len(xb) - 1), q), Dot(q, xb[Len(xb)]))

\* The vectors with ordinals (0-based) in S as (ordinal, score) hits, best
\* score first; equal scores keep the scan order.
RECURSIVE Ranked(_, _)
Ranked(sc, S) ==
    IF S = {} THEN <<>>
    ELSE LET best == CHOOSE i \in S : \A j \in S :
                        sc[i + 1] > sc[j + 1] \/ (sc[i + 1] = sc[j + 1] /\ i <= j)
         IN  <<[idx |-> best, score |-> sc[best + 1]]>> \o Ranked(sc, S \ {best})

\* The first k hits; faiss fills what is missing with ordinal -1.
RECURSIVE PadTo(_, _)
PadTo(hits, k) ==
    IF Len(hits) >= k THEN SubSeq(hits, 1, k)
    ELSE PadTo(Append(hits, [idx |-> -1, score |-> NoScore]), k)

\* self.index.search(query, k) on the normalised query: k pairs
\* (ordinal, score), padded with ordinal -1.
IndexSearch(xb, query, k) == PadTo(Ranked(Scores(xb, query), 0..(Len(xb) - 1)), k)

\* The result loop of search run against one mapping: hits with ordinal -1 or
\* without a mapping entry are dropped.
RECURSIVE ResultsFrom(_, _, _)
ResultsFrom(hits, m, n) ==
    IF n > Len(hits) THEN <<>>
    ELSE IF hits[n].idx = -1 \/ hits[n].idx >= Len(m) THEN ResultsFrom(hits, m, n + 1)
    ELSE <<<<m[hits[n].idx + 1], hits[n].score>>>> \o ResultsFrom(hits, m, n + 1)

\* What search(q, k) returns on a store holding index xb and mapping m when no
\* other call runs.
SearchResults(xb, m, q, k) ==
    IF Len(xb) = 0 THEN <<>> ELSE ResultsFrom(IndexSearch(xb, normalize_L2(q), k), m, 1)

\* faiss.write_index: the header (d, ntotal) and the vectors' components, flat.
WriteIndex(xb) ==
    [d |-> Dimension, ntotal |-> Len(xb),
     codes |-> [c \in 1..(Len(xb) * Dimension) |->
                    xb[((c - 1) \div Dimension) + 1][((c - 1) % Dimension) + 1]]]

\* faiss.read_index
ReadIndex(f) ==
    [i \in 1..f.ntotal |-> [j \in 1..f.d |-> f.codes[(i - 1) * f.d + j]]]

\* _persist_mapping: json.dump({"mapping": mapping})
_persist_mapping(m) == [mapping |-> m]

\* _load_or_create_mapping on an existing file: data.get("mapping", [])
LoadMapping(f) == IF "mapping" \in DOMAIN f THEN f.mapping ELSE <<>>

\* Faulty variant: rebuild reusing the index object it already holds.
RebuildFreshIndex_Keep == index

\* rebuild: self.index = faiss.IndexFlatIP(self.dimension)
RebuildFreshIndex == <<>>

\* Faulty variant: add_vector persisting the mapping as it was before the append.
AddPersistedMapping_Stale == _persist_mapping(SubSeq(mapping, 1, Len(mapping) - 1))

\* add_vector: self._persist_mapping(self.mapping)
AddPersistedMapping == _persist_mapping(mapping)

\* rebuild: faiss.normalize_L2(matrix), row by row.
NormalizeRows(V) == [i \in DOMAIN V |-> normalize_L2(V[i])]

NoArgs == [op |-> "none", V |-> <<>>, ids |-> <<>>]
NoSearch == [q |-> <<>>, k |-> 0, hits |-> <<>>, n |-> 0, results |-> <<>>,
             from |-> <<>>, mapThen |-> <<>>]

\* FaissStore.__init__ with no files on disk: both files are created empty.
FaissInit ==
    /\ index = <<>>
    /\ mapping = <<>>
    /\ indexFile = WriteIndex(<<>>)
    /\ mappingFile = _persist_mapping(<<>>)
    /\ mpc = "idle"
    /\ mloc = NoArgs
    /\ spc = "idle"
    /\ sloc = NoSearch
    /\ reloaded = FALSE
    /\ callsStarted = 0

\* self._lock is held by the mutating caller from its first step to its last.
LockFree == mpc = "idle"

\* ---- add_vector ----
\* with self._lock: normalize_L2(vector); self.index.add(vector)
AddVectorIndex(v, id) ==
    /\ LockFree
    /\ callsStarted < MaxCalls
    /\ callsStarted' = callsStarted + 1
    /\ index' = Append(index, normalize_L2(v))
    /\ mloc' = [op |-> "add_vector", V |-> <<v>>, ids |-> <<id>>]
    /\ mpc' = "add_map"
    /\ reloaded' = FALSE
    /\ UNCHANGED <<mapping, indexFile, mappingFile, spc, sloc>>
    /\ UNCHANGED notFaiss

\* self.mapping.append(doc_id)
AddVectorMapping ==
    /\ mpc = "add_map"
    /\ mapping' = Append(mapping, mloc.ids[1])
    /\ mpc' = "add_pi"
    /\ UNCHANGED <<index, indexFile, mappingFile, mloc, spc, sloc, reloaded,
                   callsStarted>>
    /\ UNCHANGED notFaiss

\* self._persist_index()
AddPersistIndex ==
    /\ mpc = "add_pi"
    /\ indexFile' = WriteIndex(index)
    /\ mpc' = "add_pm"
    /\ UNCHANGED <<index, mapping, mappingFile, mloc, spc, sloc, reloaded,
                   callsStarted>>
    /\ UNCHANGED notFaiss

\* self._persist_mapping(self.mapping); the lock is released and the call returns.
AddPersistMapping ==
    /\ mpc = "add_pm"
    /\ mappingFile' = AddPersistedMapping
    /\ mpc' = "idle"
    /\ UNCHANGED <<index, mapping, indexFile, mloc, spc, sloc, reloaded, callsStarted>>
    /\ UNCHANGED notFaiss

\* ---- rebuild ----
\* with self._lock: self.index = faiss.IndexFlatIP(self.dimension)
RebuildNewIndex(V, ids) ==
    /\ LockFree
    /\ callsStarted < MaxCalls
    /\ callsStarted' = callsStarted + 1
    /\ index' = RebuildFreshIndex
    /\ mloc' = [op |-> "rebuild", V |-> V, ids |-> ids]
    /\ mpc' = "rb_add"
    /\ reloaded' = FALSE
    /\ UNCHANGED <<mapping, indexFile, mappingFile, spc, sloc>>
    /\ UNCHANGED notFaiss

\* if vectors: normalize_L2(matrix); self.index.add(matrix)
RebuildAdd ==
    /\ mpc = "rb_add"
    /\ index' = IF mloc.V # <<>> THEN index \o NormalizeRows(mloc.V) ELSE index
    /\ mpc' = "rb_map"
    /\ UNCHANGED <<mapping, indexFile, mappingFile, mloc, spc, sloc, reloaded,
                   callsStarted>>
    /\ UNCHANGED notFaiss

\* self.mapping = doc_ids
RebuildMapping ==
    /\ mpc = "rb_map"
    /\ mapping' = mloc.ids
    /\ mpc' = "rb_pi"
    /\ UNCHANGED <<index, indexFile, mappingFile, mloc, spc, sloc, reloaded,
                   callsStarted>>
    /\ UNCHANGED notFaiss

RebuildPersistIndex ==
    /\ mpc = "rb_pi"
    /\ indexFile' = WriteIndex(index)
    /\ mpc' = "rb_pm"
    /\ UNCHANGED <<index, mapping, mappingFile, mloc, spc, sloc, reloaded,
                   callsStarted>>
    /\ UNCHANGED notFaiss

RebuildPersistMapping ==
    /\ mpc = "rb_pm"
    /\ mappingFile' = _persist_mapping(mapping)
    /\ mpc' = "idle"
    /\ UNCHANGED <<index, mapping, indexFile, mloc, spc, sloc, reloaded, callsStarted>>
    /\ UNCHANGED notFaiss

\* ---- search ----
\* if self.index.ntotal == 0: return []      (read without the lock)
SearchStart(q, k) ==
    /\ spc = "idle"
    /\ sloc' = [NoSearch EXCEPT !.q = q, !.k = k]
    /\ spc' = IF Len(index) = 0 THEN "s_done" ELSE "s_lock"
    /\ UNCHANGED <<index, mapping, indexFile, mappingFile, mpc, mloc, reloaded,
                   callsStarted>>
    /\ UNCHANGED notFaiss

\* with self._lock: normalize_L2(query); scores, indices = self.index.search(query, k)
\* mapThen records the mapping that is paired with the index at that moment.
SearchLocked ==
    /\ spc = "s_lock"
    /\ LockFree
    /\ sloc' = [sloc EXCEPT !.hits = IndexSearch(index, normalize_L2(sloc.q), sloc.k),
                            !.n = 1,
                            !.mapThen = mapping]
    /\ spc' = "s_check"
    /\ UNCHANGED <<index, mapping, indexFile, mappingFile, mpc, mloc, reloaded,
                   callsStarted>>
    /\ UNCHANGED notFaiss

\* the loop head and  if idx == -1 or idx >= len(self.mapping): continue
\* (outside the lock)
SearchLoopCheck ==
    /\ spc = "s_check"
    /\ IF sloc.n > Len(sloc.hits)
       THEN spc' = "s_done" /\ UNCHANGED sloc
       ELSE IF sloc.hits[sloc.n].idx = -1 \/ sloc.hits[sloc.n].idx >= Len(mapping)
       THEN spc' = "s_check" /\ sloc' = [sloc EXCEPT !.n = @ + 1]
       ELSE spc' = "s_read" /\ UNCHANGED sloc
    /\ UNCHANGED <<index, mapping, indexFile, mappingFile, mpc, mloc, reloaded,
                   callsStarted>>
    /\ UNCHANGED notFaiss

\* results.append((self.mapping[idx], float(score)))   (outside the lock; an
\* index past the end of the list raises IndexError)
SearchLoopRead ==
    /\ spc = "s_read"
    /\ LET h == sloc.hits[sloc.n]
       IN  IF h.idx < Len(mapping)
           THEN /\ sloc' = [sloc EXCEPT !.results = Append(@, <<mapping[h.idx + 1], h.score>>),
                                        !.from = Append(@, h.idx),
                                        !.n = @ + 1]
                /\ spc' = "s_check"
           ELSE /\ spc' = "s_raised"
                /\ UNCHANGED sloc
    /\ UNCHANGED <<index, mapping, indexFile, mappingFile, mpc, mloc, reloaded,
                   callsStarted>>
    /\ UNCHANGED notFaiss

\* The caller takes the result (or the exception).
SearchReturn ==
    /\ spc \in {"s_done", "s_raised"}
    /\ spc' = "idle"
    /\ sloc' = NoSearch
    /\ UNCHANGED <<index, mapping, indexFile, mappingFile, mpc, mloc, reloaded,
                   callsStarted>>
    /\ UNCHANGED notFaiss

\* ---- process restart ----
\* The process stops while no mutating call runs and FaissStore.__init__ loads
\* both files again; a search in flight is gone with the old process.
Restart ==
    /\ mpc = "idle"
    /\ ~reloaded
    /\ index' = ReadIndex(indexFile)
    /\ mapping' = LoadMapping(mappingFile)
    /\ spc' = "idle"
    /\ sloc' = NoSearch
    /\ reloaded' = TRUE
    /\ UNCHANGED <<indexFile, mappingFile, mpc, mloc, callsStarted>>
    /\ UNCHANGED notFaiss

NextFaiss ==
    \/ \E v \in Vectors, id \in DocIds : AddVectorIndex(v, id)
    \/ AddVectorMapping
    \/ AddPersistIndex
    \/ AddPersistMapping
    \/ \E a \in RebuildArgs : RebuildNewIndex(a[1], a[2])
    \/ RebuildAdd
    \/ RebuildMapping
    \/ RebuildPersistIndex
    \/ RebuildPersistMapping
    \/ \E q \in Queries, k \in Ks : SearchStart(q, k)
    \/ SearchLocked
    \/ SearchLoopCheck
    \/ SearchLoopRead
    \/ SearchReturn
    \/ Restart

\* C3: after any sequence of add_vector and rebuild calls, with any arguments,
\* the id mapping is as long as the index holds vectors.
C3_MappingMatchesIndex == mpc = "idle" => Len(mapping) = Len(index)

\* C4: every (external_id, score) pair search returns comes from one state of
\* the store: the id is the one the mapping paired, when the index was searched,
\* with the vector whose score is reported.
C4_PairsFromOneState ==
    \A i \in DOMAIN sloc.results :
        /\ sloc.from[i] + 1 \in DOMAIN sloc.mapThen
        /\ sloc.results[i][1] = sloc.mapThen[sloc.from[i] + 1]

\* C5: once add_vector has returned, the index and the mapping loaded from the
\* two files equal the ones in memory, so a search after a restart returns what
\* it returned before.
C5_RestartRoundTrip ==
    (mloc.op = "add_vector" /\ mpc = "idle") =>
        LET xb == ReadIndex(indexFile)
            m == LoadMapping(mappingFile)
        IN  /\ xb = index
            /\ m = mapping
            /\ \A q \in Queries, k \in Ks :
                  SearchResults(xb, m, q, k) = SearchResults(index, mapping, q, k)

\* add_vector returned, the process restarted, and a search on the reloaded
\* store has produced a hit.
C5_Witness ==
    /\ mloc.op = "add_vector"
    /\ reloaded
    /\ Len(index) >= 2
    /\ spc = "s_done"
    /\ Len(sloc.results) >= 1

\* A store built from nothing by add_vector(V[i], ids[i]) for i = 1, 2, ...
RECURSIVE FreshIndex(_, _)
FreshIndex(V, n) == IF n = 0 THEN <<>> ELSE Append(FreshIndex(V, n - 1), normalize_L2(V[n]))
RECURSIVE FreshMapping(_, _)
FreshMapping(ids, n) == IF n = 0 THEN <<>> ELSE Append(FreshMapping(ids, n - 1), ids[n])

\* C6: after rebuild(V, ids) with as many ids as vectors, whatever the store
\* held before, search(q, k) returns what it returns on a store built from
\* nothing by adding the vectors of V with their ids in order.
C6_RebuildEqualsFresh ==
    (mloc.op = "rebuild" /\ mpc = "idle" /\ Len(mloc.V) = Len(mloc.ids)) =>
        \A q \in Queries, k \in Ks :
            SearchResults(index, mapping, q, k)
              = SearchResults(FreshIndex(mloc.V, Len(mloc.V)),
                              FreshMapping(mloc.ids, Len(mloc.ids)), q, k)

\* rebuild of two vectors returned on a store that held something else before,
\* and a search has run on the rebuilt store.
C6_Witness ==
    /\ mloc.op = "rebuild"
    /\ mpc = "idle"
    /\ callsStarted >= 2
    /\ Len(mloc.V) = Len(mloc.ids)
    /\ Len(mloc.V) >= 2
    /\ spc = "s_done"
    /\ Len(sloc.results) >= 2

----------------------------------------------------------------------------
(***************************************************************************)
(* Dashboard statistics: the durable snapshot, the in-memory snapshot and  *)
(* the requests that change the collection they are computed from          *)
(***************************************************************************)

MaxExperiences == 3  \* documents the collection can hold
MaxChanges == 1      \* create / soft-delete / restore / edit requests in one behaviour
MaxClock == 2        \* last tick of the clock
\* _MEM_CACHE_TTL (300.0 seconds), in ticks.
_MEM_CACHE_TTL == 1

ExpIds == 1..MaxExperiences
Difficulties == {"Easy", "Hard"}
Readers == {"r1"}
RefreshThreads == {"t1"}

_REQUIRED_CACHE_FIELDS == {"total_experiences", "frequent_questions", "interview_progression"}

\* Keys of the dict _compute_and_cache_stats builds.
StatsFields ==
    {"total_experiences", "top_company", "top_topic", "topic_totals",
     "difficulty_distribution", "company_topic_counts", "frequent_questions",
     "interview_progression"}

\* _mem_cache: dict = {}
EmptyDict == [fields |-> {}, total_experiences |-> 0, difficulty_distribution |-> <<>>, ver |-> 0]

\* A dashboard_stats document written by an older version of the code: it has
\* the totals but neither frequent_questions nor interview_progression.
OldSchemaDoc ==
    [fields |-> StatsFields \ {"frequent_questions", "interview_progression"},
     total_experiences |-> 0, difficulty_distribution |-> <<>>, ver |-> 0]

\* Faulty variant: every stored document passes the validation.
HasRequiredFields_Always(data) == TRUE

\* _REQUIRED_CACHE_FIELDS.issubset(data.keys())
HasRequiredFields(data) == _REQUIRED_CACHE_FIELDS \subseteq data.fields

\* Faulty variant: the soft-deleted documents are not filtered out.
ActiveIds_All(exps) == {e \in ExpIds : exps[e] # NoDoc}

\* active_snapshots: the documents whose is_active is not False.
ActiveIds(exps) == {e \in ExpIds : exps[e] # NoDoc /\ exps[e].is_active}

\* dict(difficulty_counter): only difficulties that occur have a key.
DifficultyCounter(exps) ==
    LET occurring == {exps[e].difficulty : e \in ActiveIds(exps)}
    IN  [d \in occurring |-> Cardinality({e \in ActiveIds(exps) : exps[e].difficulty = d})]

\* The dict built by _compute_and_cache_stats from one scan of the collection
\* (ver: how many changes the scanned collection had seen).
ComputeStats(exps, ver) ==
    [fields |-> StatsFields,
     total_experiences |-> Cardinality(ActiveIds(exps)),
     difficulty_distribution |-> DifficultyCounter(exps),
     ver |-> ver]

NoCall == [now |-> 0, verAtCall |-> 0, data |-> EmptyDict, result |-> EmptyDict,
           sawIncomplete |-> FALSE, recomputed |-> FALSE, failed |-> None]

\* The collection as seeding and earlier requests left it: a visible record,
\* a hidden one, and room for new ones.
SeededExperiences ==
    [e \in ExpIds |->
        IF e = 1 THEN [exists |-> TRUE, is_active |-> TRUE, difficulty |-> "Easy"]
        ELSE IF e = 2 THEN [exists |-> TRUE, is_active |-> FALSE, difficulty |-> "Hard"]
        ELSE NoDoc]

\* Module import, with the dashboard_stats document the store holds (doc).
StatsInit(doc) ==
    /\ clock = 0
    /\ experiences = SeededExperiences
    /\ statsDoc = doc
    /\ mem_cache = EmptyDict
    /\ mem_cache_ts = 0
    /\ dataVer = 0
    /\ cpc = [r \in Readers |-> "idle"]
    /\ cloc = [r \in Readers |-> NoCall]
    /\ bpc = [t \in RefreshThreads |-> "idle"]
    /\ bloc = [t \in RefreshThreads |-> EmptyDict]

\* time passes (and the outcome of the last get is history)
Tick ==
    /\ clock < MaxClock
    /\ clock' = clock + 1
    /\ lastGet' = [c \in DOMAIN lastGet |-> Miss]
    /\ evicted' = [c \in DOMAIN evicted |-> Miss]
    /\ UNCHANGED <<search_cache, auth_cache, users, apc, aloc, stored>>
    /\ UNCHANGED notCache

\* threading.Thread(target=update_dashboard_stats_async, daemon=True).start()
StartRefresh(t) ==
    /\ bpc[t] = "idle"
    /\ bpc' = [bpc EXCEPT ![t] = "scan"]

\* ---- requests that change the collection ----
\* create_experience: the document is stored and the request returns; the
\* enrichment thread refreshes the stats at its end (enriched), unless one of
\* its steps raised before.
CreateExperience(e, d, t, enriched) ==
    /\ dataVer < MaxChanges
    /\ experiences[e] = NoDoc
    /\ \A f \in ExpIds : f < e => experiences[f] # NoDoc
    /\ experiences' = [experiences EXCEPT
                          ![e] = [exists |-> TRUE, is_active |-> TRUE, difficulty |-> d]]
    /\ dataVer' = dataVer + 1
    /\ IF enriched THEN StartRefresh(t) ELSE UNCHANGED bpc
    /\ UNCHANGED <<clock, statsDoc, mem_cache, mem_cache_ts, cpc, cloc, bloc>>
    /\ UNCHANGED notStats

\* soft_delete_experience: update is_active, start the refresh thread, return.
SoftDelete(e, t) ==
    /\ dataVer < MaxChanges
    /\ experiences[e] # NoDoc
    /\ experiences[e].is_active
    /\ experiences' = [experiences EXCEPT ![e].is_active = FALSE]
    /\ dataVer' = dataVer + 1
    /\ StartRefresh(t)
    /\ UNCHANGED <<clock, statsDoc, mem_cache, mem_cache_ts, cpc, cloc, bloc>>
    /\ UNCHANGED notStats

\* restore_experience
Restore(e, t) ==
    /\ dataVer < MaxChanges
    /\ experiences[e] # NoDoc
    /\ ~experiences[e].is_active
    /\ experiences' = [experiences EXCEPT ![e].is_active = TRUE]
    /\ dataVer' = dataVer + 1
    /\ StartRefresh(t)
    /\ UNCHANGED <<clock, statsDoc, mem_cache, mem_cache_ts, cpc, cloc, bloc>>
    /\ UNCHANGED notStats

\* update_experience_metadata with a difficulty different from the stored one
\* (an unchanged value is answered with 400 and writes nothing).
EditMetadata(e, d, t) ==
    /\ dataVer < MaxChanges
    /\ experiences[e] # NoDoc
    /\ experiences[e].difficulty # d
    /\ experiences' = [experiences EXCEPT ![e].difficulty = d]
    /\ dataVer' = dataVer + 1
    /\ StartRefresh(t)
    /\ UNCHANGED <<clock, statsDoc, mem_cache, mem_cache_ts, cpc, cloc, bloc>>
    /\ UNCHANGED notStats

\* ---- update_dashboard_stats_async (refresh thread) ----
\* _compute_and_cache_stats: the scan; an exception ends the thread silently.
RefreshScan(t, ok) ==
    /\ bpc[t] = "scan"
    /\ IF ok
       THEN /\ bloc' = [bloc EXCEPT ![t] = ComputeStats(experiences, dataVer)]
            /\ bpc' = [bpc EXCEPT ![t] = "write"]
       ELSE /\ bpc' = [bpc EXCEPT ![t] = "idle"]
            /\ UNCHANGED bloc
    /\ UNCHANGED <<clock, experiences, statsDoc, mem_cache, mem_cache_ts, dataVer, cpc, cloc>>
    /\ UNCHANGED notStats

\* _compute_and_cache_stats: set(stats) inside try/except.
RefreshWrite(t, ok) ==
    /\ bpc[t] = "write"
    /\ statsDoc' = IF ok THEN bloc[t] ELSE statsDoc
    /\ bpc' = [bpc EXCEPT ![t] = "install"]
    /\ UNCHANGED <<clock, experiences, mem_cache, mem_cache_ts, dataVer, cpc, cloc, bloc>>
    /\ UNCHANGED notStats

\* _mem_cache = result; _mem_cache_ts = time.time()
RefreshInstall(t) ==
    /\ bpc[t] = "install"
    /\ mem_cache' = bloc[t]
    /\ mem_cache_ts' = clock
    /\ bpc' = [bpc EXCEPT ![t] = "idle"]
    /\ bloc' = [bloc EXCEPT ![t] = EmptyDict]
    /\ UNCHANGED <<clock, experiences, statsDoc, dataVer, cpc, cloc>>
    /\ UNCHANGED notStats

\* ---- _get_or_compute_stats (reader) ----
\* now = time.time(); if _mem_cache and (now - _mem_cache_ts) < _MEM_CACHE_TTL
GetStart(r) ==
    /\ cpc[r] = "idle"
    /\ cloc' = [cloc EXCEPT ![r] = [NoCall EXCEPT !.now = clock, !.verAtCall = dataVer]]
    /\ cpc' = [cpc EXCEPT ![r] =
                  IF mem_cache.fields # {} /\ (clock - mem_cache_ts) < _MEM_CACHE_TTL
                  THEN "ret_mem" ELSE "read_doc"]
    /\ UNCHANGED <<clock, experiences, statsDoc, mem_cache, mem_cache_ts, dataVer, bpc, bloc>>
    /\ UNCHANGED notStats

\* return _mem_cache
GetReturnMem(r) ==
    /\ cpc[r] = "ret_mem"
    /\ cloc' = [cloc EXCEPT ![r].result = mem_cache]
    /\ cpc' = [cpc EXCEPT ![r] = "returned"]
    /\ UNCHANGED <<clock, experiences, statsDoc, mem_cache, mem_cache_ts, dataVer, bpc, bloc>>
    /\ UNCHANGED notStats

\* stats_doc = stats_ref.get() and the validation of its fields.  The read is
\* in no try block: when it fails (ok = FALSE) the exception leaves the function.
GetReadDoc(r, ok) ==
    /\ cpc[r] = "read_doc"
    /\ IF ~ok
       THEN /\ cpc' = [cpc EXCEPT ![r] = "raised"]
            /\ cloc' = [cloc EXCEPT ![r].failed = "snapshot_read"]
            /\ UNCHANGED <<mem_cache, mem_cache_ts>>
       ELSE IF statsDoc # NoDoc /\ HasRequiredFields(statsDoc)
       THEN /\ mem_cache' = statsDoc
            /\ mem_cache_ts' = cloc[r].now
            /\ cloc' = [cloc EXCEPT ![r].result = statsDoc]
            /\ cpc' = [cpc EXCEPT ![r] = "returned"]
       ELSE /\ cloc' = [cloc EXCEPT ![r].sawIncomplete = (statsDoc # NoDoc)]
            /\ cpc' = [cpc EXCEPT ![r] = "scan"]
            /\ UNCHANGED <<mem_cache, mem_cache_ts>>
    /\ UNCHANGED <<clock, experiences, statsDoc, dataVer, bpc, bloc>>
    /\ UNCHANGED notStats

\* _compute_and_cache_stats: the scan of the collection (a failure propagates).
GetScan(r, ok) ==
    /\ cpc[r] = "scan"
    /\ IF ok
       THEN /\ cloc' = [cloc EXCEPT ![r].data = ComputeStats(experiences, dataVer)]
            /\ cpc' = [cpc EXCEPT ![r] = "write"]
       ELSE /\ cloc' = [cloc EXCEPT ![r].failed = "scan"]
            /\ cpc' = [cpc EXCEPT ![r] = "raised"]
    /\ UNCHANGED <<clock, experiences, statsDoc, mem_cache, mem_cache_ts, dataVer, bpc, bloc>>
    /\ UNCHANGED notStats

\* _compute_and_cache_stats: set(stats); a failure is swallowed.
GetWrite(r, ok) ==
    /\ cpc[r] = "write"
    /\ statsDoc' = IF ok THEN cloc[r].data ELSE statsDoc
    /\ cloc' = [cloc EXCEPT ![r].failed = IF ok THEN None ELSE "snapshot_write"]
    /\ cpc' = [cpc EXCEPT ![r] = "install"]
    /\ UNCHANGED <<clock, experiences, mem_cache, mem_cache_ts, dataVer, bpc, bloc>>
    /\ UNCHANGED notStats

\* _mem_cache = result; _mem_cache_ts = now; return result
GetInstall(r) ==
    /\ cpc[r] = "install"
    /\ mem_cache' = cloc[r].data
    /\ mem_cache_ts' = cloc[r].now
    /\ cloc' = [cloc EXCEPT ![r].result = cloc[r].data, ![r].recomputed = TRUE]
    /\ cpc' = [cpc EXCEPT ![r] = "returned"]
    /\ UNCHANGED <<clock, experiences, statsDoc, dataVer, bpc, bloc>>
    /\ UNCHANGED notStats

\* The endpoint takes the snapshot (or the exception) and the request ends.
GetDone(r) ==
    /\ cpc[r] \in {"returned", "raised"}
    /\ cpc' = [cpc EXCEPT ![r] = "idle"]
    /\ cloc' = [cloc EXCEPT ![r] = NoCall]
    /\ UNCHANGED <<clock, experiences, statsDoc, mem_cache, mem_cache_ts, dataVer, bpc, bloc>>
    /\ UNCHANGED notStats

NextStats ==
    \/ Tick
    \/ \E e \in ExpIds, d \in Difficulties, t \in RefreshThreads, enriched \in BOOLEAN :
          CreateExperience(e, d, t, enriched)
    \/ \E e \in ExpIds, t \in RefreshThreads : SoftDelete(e, t)
    \/ \E e \in ExpIds, t \in RefreshThreads : Restore(e, t)
    \/ \E e \in ExpIds, d \in Difficulties, t \in RefreshThreads : EditMetadata(e, d, t)
    \/ \E t \in RefreshThreads, ok \in BOOLEAN : RefreshScan(t, ok)
    \/ \E t \in RefreshThreads, ok \in BOOLEAN : RefreshWrite(t, ok)
    \/ \E t \in RefreshThreads : RefreshInstall(t)
    \/ \E r \in Readers : GetStart(r)
    \/ \E r \in Readers : GetReturnMem(r)
    \/ \E r \in Readers, ok \in BOOLEAN : GetReadDoc(r, ok)
    \/ \E r \in Readers, ok \in BOOLEAN : GetScan(r, ok)
    \/ \E r \in Readers, ok \in BOOLEAN : GetWrite(r, ok)
    \/ \E r \in Readers : GetInstall(r)
    \/ \E r \in Readers : GetDone(r)

\* C7: no incomplete snapshot is served or installed.  The in-memory snapshot,
\* once set, has every required field; so has every snapshot a call returns;
\* and a call that found an incomplete durable snapshot returns one it
\* recomputed from the collection.
C7_OnlyCompleteSnapshots ==
    /\ mem_cache.fields # {} => _REQUIRED_CACHE_FIELDS \subseteq mem_cache.fields
    /\ \A r \in Readers :
          cpc[r] = "returned" =>
              /\ _REQUIRED_CACHE_FIELDS \subseteq cloc[r].result.fields
              /\ cloc[r].sawIncomplete => cloc[r].recomputed

\* A call found a durable snapshot of the old schema and returned a recomputed one.
C7_Witness ==
    \E r \in Readers :
        /\ cpc[r] = "returned"
        /\ cloc[r].sawIncomplete
        /\ cloc[r].recomputed
        /\ mem_cache = cloc[r].result

\* C8: a call to get_or_compute that starts after a change of the collection
\* has returned gets a snapshot computed from the collection after that change.
C8_NextReadIsFresh ==
    \A r \in Readers : cpc[r] = "returned" => cloc[r].result.ver >= cloc[r].verAtCall

\* C9: a failure of the read or the write of the durable snapshot does not
\* make get_or_compute raise.
C9_NeverRaises ==
    \A r \in Readers :
        cpc[r] = "raised" => cloc[r].failed \notin {"snapshot_read", "snapshot_write"}

----------------------------------------------------------------------------
(***************************************************************************)
(* TTL caches: search results (search.py) and auth lookups                 *)
(* (dependencies.py)                                                       *)
(***************************************************************************)

\* _SEARCH_CACHE_TTL (120 seconds) and _AUTH_CACHE_TTL (300 seconds), in ticks.
_SEARCH_CACHE_TTL == 2
_AUTH_CACHE_TTL == 2
\* _SEARCH_CACHE_MAX (100 entries) and _AUTH_CACHE_MAX (200 entries), scaled down.
_SEARCH_CACHE_MAX == 1
_AUTH_CACHE_MAX == 2

\* Cache keys of the search requests (the md5 digests of their parameters).
SearchKeys == {"q1", "q2"}
\* Search responses, by content.
SearchResponses == {[total |-> 1], [total |-> 2]}
\* Bearer tokens (two sessions of one user) and the uid they verify to.
Tokens == {"tokA", "tokB"}
Uids == {"u1"}
Roles == {"viewer", "contributor"}
AuthRequests == {"a1"}
CacheNames == {"search", "auth"}

\* firebase_auth.verify_id_token(token).get("uid")
UidOf(token) == "u1"

\* hashlib.sha256(token.encode()).hexdigest()[:16]
AuthKey(token) == IF token = "tokA" THEN "5c1e" ELSE "9f3b"

\* dict.copy(): a new dict with the same items.
Copy(d) == [f \in DOMAIN d |-> d[f]]

\* Faulty variant: an entry counts as fresh only up to one tick before its TTL.
IsFresh_Early(ts, now, ttl) == now - ts < ttl - 1

\* Faulty variant: an entry exactly as old as the TTL still counts as fresh.
IsFresh_Late(ts, now, ttl) == now - ts <= ttl

\* time.time() - entry[0] < TTL
IsFresh(ts, now, ttl) == now - ts < ttl

\* cache.get(key): the entry stored under key, or None.
Lookup(cache, key) ==
    IF \E i \in DOMAIN cache : cache[i].key = key
    THEN cache[CHOOSE i \in DOMAIN cache : cache[i].key = key]
    ELSE Miss

\* cache.pop(key, None) / del cache[key]
Remove(cache, key) == SelectSeq(cache, LAMBDA x : x.key # key)

\* Faulty variant: the key with the largest timestamp is chosen.
Oldest_Newest(cache) ==
    cache[CHOOSE i \in DOMAIN cache :
              \A j \in DOMAIN cache :
                  cache[i].ts > cache[j].ts \/ (cache[i].ts = cache[j].ts /\ i <= j)].key

\* min(cache, key=lambda k: cache[k][0]): the first key, in insertion order,
\* among those with the smallest timestamp.
Oldest(cache) ==
    cache[CHOOSE i \in DOMAIN cache :
              \A j \in DOMAIN cache :
                  cache[i].ts < cache[j].ts \/ (cache[i].ts = cache[j].ts /\ i <= j)].key

\* cache[key] = (ts, data): an existing key keeps its place, a new one goes last.
Assign(cache, key, ts, data) ==
    IF \E i \in DOMAIN cache : cache[i].key = key
    THEN [i \in DOMAIN cache |->
             IF cache[i].key = key THEN [key |-> key, ts |-> ts, data |-> data]
             ELSE cache[i]]
    ELSE Append(cache, [key |-> key, ts |-> ts, data |-> data])

KeysOf(cache) == {cache[i].key : i \in DOMAIN cache}

\* The first half of a put: if len(cache) >= MAX: del cache[oldest].
Evict(cache, max) ==
    IF Len(cache) >= max THEN Remove(cache, Oldest(cache)) ELSE cache

\* History of one put: the entries its eviction deleted, with the timestamps
\* that were in the map at that moment; Miss when it deleted nothing.
Deleted(cache, max) ==
    LET gone == {i \in DOMAIN cache : cache[i].key \notin KeysOf(Evict(cache, max))}
    IN  IF gone = {} THEN Miss
        ELSE [entries |-> {[key |-> cache[i].key, ts |-> cache[i].ts] : i \in gone},
              present |-> {cache[i].ts : i \in DOMAIN cache}]

\* The put of both caches: if len(cache) >= MAX: del cache[oldest]; then the
\* assignment.
Put(cache, max, key, ts, data) == Assign(Evict(cache, max), key, ts, data)

\* History of one put: the key's stored value and time are recorded, and the
\* record of every key the put removed is dropped.
Recorded(hist, before, after, key, ts, data) ==
    [k \in DOMAIN hist |->
        IF k = key THEN [ts |-> ts, data |-> data]
        ELSE IF k \in KeysOf(before) \ KeysOf(after) THEN Miss
        ELSE hist[k]]

NoAuth == [token |-> None, user_data |-> Miss, result |-> Miss]

CacheInit ==
    /\ search_cache = <<>>
    /\ auth_cache = <<>>
    /\ users = [u \in Uids |-> "viewer"]
    /\ apc = [a \in AuthRequests |-> "idle"]
    /\ aloc = [a \in AuthRequests |-> NoAuth]
    /\ stored = [c \in CacheNames |->
                    IF c = "search" THEN [k \in SearchKeys |-> Miss]
                    ELSE [k \in {AuthKey(t) : t \in Tokens} |-> Miss]]
    /\ lastGet = [c \in CacheNames |-> Miss]
    /\ evicted = [c \in CacheNames |-> Miss]

\* ---- search cache ----
\* _get_cached(key), under _search_cache_lock
SearchGet(key) ==
    LET entry == Lookup(search_cache, key)
        hit == entry # Miss /\ IsFresh(entry.ts, clock, _SEARCH_CACHE_TTL)
    IN  /\ search_cache' = IF hit THEN search_cache ELSE Remove(search_cache, key)
        /\ lastGet' = [lastGet EXCEPT !["search"] =
                          [key |-> key, at |-> clock,
                           value |-> IF hit THEN entry.data ELSE Miss]]
        /\ UNCHANGED <<clock, auth_cache, users, apc, aloc, stored, evicted>>
        /\ UNCHANGED notCache

\* _set_cached(key, data), under _search_cache_lock
SetCached(key, data) ==
    /\ search_cache' = Put(search_cache, _SEARCH_CACHE_MAX, key, clock, data)
    /\ stored' = [stored EXCEPT !["search"] =
                     Recorded(@, search_cache, search_cache', key, clock, data)]
    /\ lastGet' = [lastGet EXCEPT !["search"] = Miss]
    /\ UNCHANGED <<clock, auth_cache, users, apc, aloc>>
    /\ UNCHANGED notCache

\* _set_cached, its eviction not recorded.
SearchPut(key, data) == SetCached(key, data) /\ UNCHANGED evicted

\* _set_cached, its eviction recorded.
SearchPutRecorded(key, data) ==
    /\ SetCached(key, data)
    /\ evicted' = [evicted EXCEPT !["search"] = Deleted(search_cache, _SEARCH_CACHE_MAX)]

\* ---- auth cache: get_current_user ----
\* with _auth_cache_lock: entry = _auth_cache.get(cache_key); a fresh entry is
\* returned as a copy
AuthLookup(a, token) ==
    LET entry == Lookup(auth_cache, AuthKey(token))
        hit == entry # Miss /\ IsFresh(entry.ts, clock, _AUTH_CACHE_TTL)
    IN  /\ apc[a] = "idle"
        /\ lastGet' = [lastGet EXCEPT !["auth"] =
                          [key |-> AuthKey(token), at |-> clock,
                           value |-> IF hit THEN Copy(entry.data) ELSE Miss]]
        /\ IF hit
           THEN /\ aloc' = [aloc EXCEPT ![a] = [NoAuth EXCEPT !.token = token,
                                                              !.result = Copy(entry.data)]]
                /\ apc' = [apc EXCEPT ![a] = "returned"]
           ELSE /\ aloc' = [aloc EXCEPT ![a] = [NoAuth EXCEPT !.token = token]]
                /\ apc' = [apc EXCEPT ![a] = "fetch"]
        /\ UNCHANGED <<clock, search_cache, auth_cache, users, stored, evicted>>
        /\ UNCHANGED notCache

\* verify_id_token and _get_or_create_user: the user document as the store
\* holds it now.
AuthFetch(a) ==
    /\ apc[a] = "fetch"
    /\ aloc' = [aloc EXCEPT ![a].user_data =
                   [uid |-> UidOf(aloc[a].token), role |-> users[UidOf(aloc[a].token)]]]
    /\ apc' = [apc EXCEPT ![a] = "store"]
    /\ UNCHANGED <<clock, search_cache, auth_cache, users, stored, lastGet, evicted>>
    /\ UNCHANGED notCache

\* with _auth_cache_lock: evict if full; _auth_cache[cache_key] =
\* (time.time(), user_data.copy()); return user_data
StoreInCache(a) ==
    /\ apc[a] = "store"
    /\ auth_cache' = Put(auth_cache, _AUTH_CACHE_MAX, AuthKey(aloc[a].token), clock,
                         Copy(aloc[a].user_data))
    /\ stored' = [stored EXCEPT !["auth"] =
                     Recorded(@, auth_cache, auth_cache', AuthKey(aloc[a].token), clock,
                              aloc[a].user_data)]
    /\ lastGet' = [lastGet EXCEPT !["auth"] = Miss]
    /\ aloc' = [aloc EXCEPT ![a].result = aloc[a].user_data]
    /\ apc' = [apc EXCEPT ![a] = "returned"]
    /\ UNCHANGED <<clock, search_cache, users>>
    /\ UNCHANGED notCache

\* The store of get_current_user, its eviction not recorded.
AuthStore(a) == StoreInCache(a) /\ UNCHANGED evicted

\* The store of get_current_user, its eviction recorded.
AuthStoreRecorded(a) ==
    /\ StoreInCache(a)
    /\ evicted' = [evicted EXCEPT !["auth"] = Deleted(auth_cache, _AUTH_CACHE_MAX)]

\* The endpoint runs with the user dict and the request ends.
AuthDone(a) ==
    /\ apc[a] = "returned"
    /\ apc' = [apc EXCEPT ![a] = "idle"]
    /\ aloc' = [aloc EXCEPT ![a] = NoAuth]
    /\ UNCHANGED <<clock, search_cache, auth_cache, users, stored, lastGet, evicted>>
    /\ UNCHANGED notCache

\* The user document changes in the store (the role upgrade on a first
\* contribution).
UpgradeRole(u) ==
    /\ users[u] = "viewer"
    /\ users' = [users EXCEPT ![u] = "contributor"]
    /\ UNCHANGED <<clock, search_cache, auth_cache, apc, aloc, stored, lastGet, evicted>>
    /\ UNCHANGED notCache

NextCache ==
    \/ Tick
    \/ \E k \in SearchKeys : SearchGet(k)
    \/ \E k \in SearchKeys, d \in SearchResponses : SearchPut(k, d)
    \/ \E a \in AuthRequests, t \in Tokens : AuthLookup(a, t)
    \/ \E a \in AuthRequests : AuthFetch(a)
    \/ \E a \in AuthRequests : AuthStore(a)
    \/ \E a \in AuthRequests : AuthDone(a)
    \/ \E u \in Uids : UpgradeRole(u)

\* The TTL of each cache.
TTLOf(c) == IF c = "search" THEN _SEARCH_CACHE_TTL ELSE _AUTH_CACHE_TTL

\* C10: a get that follows a put of the same key before the TTL has elapsed,
\* with no put in between that evicted or overwrote the key, returns the
\* stored value (equal by content), in the search cache and in the auth cache.
C10_PutThenGet ==
    \A c \in CacheNames :
        (/\ lastGet[c] # Miss
         /\ stored[c][lastGet[c].key] # Miss
         /\ lastGet[c].at - stored[c][lastGet[c].key].ts < TTLOf(c))
        => lastGet[c].value = stored[c][lastGet[c].key].data

\* Both caches have answered a get from an entry put a tick earlier; the auth
\* entry no longer equals the user document in the store.
C10_Witness ==
    /\ \A c \in CacheNames :
          /\ lastGet[c] # Miss
          /\ lastGet[c].value # Miss
          /\ lastGet[c].at > stored[c][lastGet[c].key].ts
    /\ lastGet["auth"].value.role # users[lastGet["auth"].value.uid]

----------------------------------------------------------------------------
(***************************************************************************)
(* Expiry of the three TTL caches                                          *)
(***************************************************************************)

\* A long pause: more time passes at once than any of the TTLs.
Sleep ==
    /\ clock <= MaxClock
    /\ clock' = clock + _SEARCH_CACHE_TTL + _AUTH_CACHE_TTL + _MEM_CACHE_TTL
    /\ lastGet' = [c \in DOMAIN lastGet |-> Miss]
    /\ evicted' = [c \in DOMAIN evicted |-> Miss]
    /\ UNCHANGED <<search_cache, auth_cache, users, apc, aloc, stored>>
    /\ UNCHANGED notCache

\* One search key, one session and one dashboard reader, with the store
\* available, while time passes.
NextExpiry ==
    \/ Tick
    \/ Sleep
    \/ SearchGet("q1")
    \/ \E d \in SearchResponses : SearchPut("q1", d)
    \/ \E a \in AuthRequests : AuthLookup(a, "tokA")
    \/ \E a \in AuthRequests : AuthFetch(a)
    \/ \E a \in AuthRequests : AuthStore(a)
    \/ \E a \in AuthRequests : AuthDone(a)
    \/ \E r \in Readers : GetStart(r)
    \/ \E r \in Readers : GetReturnMem(r)
    \/ \E r \in Readers : GetReadDoc(r, TRUE)
    \/ \E r \in Readers : GetScan(r, TRUE)
    \/ \E r \in Readers : GetWrite(r, TRUE)
    \/ \E r \in Readers : GetInstall(r)
    \/ \E r \in Readers : GetDone(r)

\* C11: a get issued when the entry's age has reached the TTL is never answered
\* from that entry: the search cache and the auth cache answer a miss although
\* the entry was in the map, and _get_or_compute_stats goes on to return the
\* in-memory snapshot only when it found it younger than _MEM_CACHE_TTL.
C11_ExpiredIsMiss ==
    /\ \A c \in CacheNames :
          (/\ lastGet[c] # Miss
           /\ stored[c][lastGet[c].key] # Miss
           /\ lastGet[c].at - stored[c][lastGet[c].key].ts >= TTLOf(c))
          => lastGet[c].value = Miss
    /\ \A r \in Readers :
          cpc[r] = "ret_mem" => cloc[r].now - mem_cache_ts < _MEM_CACHE_TTL

\* All three caches have just been asked for an entry older than its TTL: the
\* auth entry is still in the map, the in-memory snapshot is still set, and
\* the reader has gone on to the durable store.
C11_Witness ==
    /\ \A c \in CacheNames :
          /\ lastGet[c] # Miss
          /\ stored[c][lastGet[c].key] # Miss
          /\ lastGet[c].at - stored[c][lastGet[c].key].ts > TTLOf(c)
    /\ Lookup(auth_cache, lastGet["auth"].key) # Miss
    /\ mem_cache.fields # {}
    /\ \E r \in Readers : /\ cpc[r] = "read_doc"
                          /\ cloc[r].now - mem_cache_ts > _MEM_CACHE_TTL

----------------------------------------------------------------------------
\* Gets and puts of both caches while time passes, every eviction recorded.
NextEvict ==
    \/ Tick
    \/ \E k \in SearchKeys : SearchGet(k)
    \/ \E k \in SearchKeys, d \in SearchResponses : SearchPutRecorded(k, d)
    \/ \E a \in AuthRequests, t \in Tokens : AuthLookup(a, t)
    \/ \E a \in AuthRequests : AuthFetch(a)
    \/ \E a \in AuthRequests : AuthStoreRecorded(a)
    \/ \E a \in AuthRequests : AuthDone(a)

\* C12: neither cache ever holds more entries than its maximum, and a put
\* that evicts deletes exactly one entry, whose timestamp is the smallest of
\* the timestamps present in the map at that moment.
C12_BoundedOldestEvicted ==
    /\ Len(search_cache) <= _SEARCH_CACHE_MAX
    /\ Len(auth_cache) <= _AUTH_CACHE_MAX
    /\ \A c \in CacheNames :
          evicted[c] # Miss =>
              /\ Cardinality(evicted[c].entries) = 1
              /\ \A e \in evicted[c].entries, t \in evicted[c].present : e.ts <= t

\* A put has just evicted from a full map whose entries had different
\* timestamps, and the map is full again.
C12_Witness ==
    \E c \in CacheNames :
        /\ evicted[c] # Miss
        /\ Cardinality(evicted[c].present) > 1
        /\ Len(IF c = "search" THEN search_cache ELSE auth_cache)
              = (IF c = "search" THEN _SEARCH_CACHE_MAX ELSE _AUTH_CACHE_MAX)

----------------------------------------------------------------------------
(***************************************************************************)
(* Sharing of cached objects (dependencies.py, search.py, dashboard.py,    *)
(* experiences.py)                                                         *)
(*                                                                         *)
(* The dicts of the three caches as objects of a heap: a cache and a       *)
(* request hold references, and an assignment through one reference is     *)
(* seen through every other reference to the same object.  Entries are     *)
(* taken as fresh here; one key per cache.                                 *)
(***************************************************************************)

MaxObjects == 4      \* dicts alive at the same time

Callers == {"c1", "c2"}
CacheKinds == {"auth", "search", "stats"}
ObjIds == 1..MaxObjects
\* No dict: what dict.get gives for an absent key (None).
NoObj == 0
Free == [free |-> TRUE]
Totals == {1, 2}
NoHandle == [pc |-> "idle", obj |-> NoObj, got |-> None]

AliasInit ==
    /\ heap = [i \in ObjIds |-> Free]
    /\ cached = [k \in CacheKinds |-> NoObj]
    /\ putval = [k \in CacheKinds |-> Miss]
    /\ call = [c \in Callers |-> NoHandle]
    /\ udoc = "viewer"

HasFree(h) == \E i \in ObjIds : h[i] = Free

\* A dict that is created: the first unused identity.
NewId(h) == CHOOSE i \in ObjIds : h[i] = Free /\ \A j \in ObjIds : h[j] = Free => i <= j

\* Faulty variant: no copy is made, the same dict is handed on.
CopyTarget_Same(h, id) == id

\* dict.copy(): the identity of the dict it returns, a new one.
CopyTarget(h, id) == NewId(h)

\* The dicts nobody refers to any more are collected.
Collect(h, refs, handles) ==
    [i \in ObjIds |->
        IF i \in {refs[k] : k \in CacheKinds} \cup {handles[c].obj : c \in Callers}
        THEN h[i] ELSE Free]

\* ---- get_current_user and the endpoint that receives the user dict ----
\* cached entry: return entry[1].copy()
AliasAuthHit(c) ==
    /\ call[c].pc = "idle"
    /\ cached["auth"] # NoObj
    /\ HasFree(heap)
    /\ LET new == CopyTarget(heap, cached["auth"])
       IN  /\ heap' = [heap EXCEPT ![new] = heap[cached["auth"]]]
           /\ call' = [call EXCEPT ![c] = [pc |-> "endpoint", obj |-> new, got |-> "hit"]]
    /\ UNCHANGED <<cached, putval, udoc>>
    /\ UNCHANGED notAlias

\* no usable entry: user_data = _get_or_create_user(...)
AliasAuthFetch(c) ==
    /\ call[c].pc = "idle"
    /\ HasFree(heap)
    /\ LET new == NewId(heap)
       IN  /\ heap' = [heap EXCEPT ![new] = [uid |-> "u1", role |-> udoc]]
           /\ call' = [call EXCEPT ![c] = [pc |-> "store", obj |-> new, got |-> "miss"]]
    /\ UNCHANGED <<cached, putval, udoc>>
    /\ UNCHANGED notAlias

\* _auth_cache[cache_key] = (time.time(), user_data.copy()); return user_data
AliasAuthStore(c) ==
    /\ call[c].pc = "store"
    /\ HasFree(heap)
    /\ LET new == CopyTarget(heap, call[c].obj)
       IN  /\ cached' = [cached EXCEPT !["auth"] = new]
           /\ call' = [call EXCEPT ![c].pc = "endpoint"]
           /\ heap' = Collect([heap EXCEPT ![new] = heap[call[c].obj]], cached', call')
           /\ putval' = [putval EXCEPT !["auth"] = heap[call[c].obj]]
    /\ UNCHANGED udoc
    /\ UNCHANGED notAlias

\* create_experience: a viewer is upgraded in the store and
\* user["role"] = "contributor" is set on the dict the request received.
AliasUpgrade(c) ==
    /\ call[c].pc = "endpoint"
    /\ heap[call[c].obj].role # "contributor"
    /\ udoc' = "contributor"
    /\ heap' = [heap EXCEPT ![call[c].obj].role = "contributor"]
    /\ UNCHANGED <<cached, putval, call>>
    /\ UNCHANGED notAlias

\* ---- search ----
\* cached = _get_cached(ck); return cached: the cached dict itself
AliasSearchHit(c) ==
    /\ call[c].pc = "idle"
    /\ cached["search"] # NoObj
    /\ call' = [call EXCEPT ![c] = [pc |-> "respond", obj |-> cached["search"], got |-> "hit"]]
    /\ UNCHANGED <<heap, cached, putval, udoc>>
    /\ UNCHANGED notAlias

\* no usable entry: the results are built from the documents
AliasSearchBuild(c, total) ==
    /\ call[c].pc = "idle"
    /\ HasFree(heap)
    /\ LET new == NewId(heap)
       IN  /\ heap' = [heap EXCEPT ![new] = [total |-> total, raw_text |-> TRUE]]
           /\ call' = [call EXCEPT ![c] = [pc |-> "pop", obj |-> new, got |-> "miss"]]
    /\ UNCHANGED <<cached, putval, udoc>>
    /\ UNCHANGED notAlias

\* for r in results: r.pop("raw_text", None)
AliasSearchPop(c) ==
    /\ call[c].pc = "pop"
    /\ heap' = [heap EXCEPT ![call[c].obj].raw_text = FALSE]
    /\ call' = [call EXCEPT ![c].pc = "set"]
    /\ UNCHANGED <<cached, putval, udoc>>
    /\ UNCHANGED notAlias

\* _set_cached(ck, result); return result: the dict now in the cache
AliasSearchSet(c) ==
    /\ call[c].pc = "set"
    /\ cached' = [cached EXCEPT !["search"] = call[c].obj]
    /\ call' = [call EXCEPT ![c].pc = "respond"]
    /\ heap' = Collect(heap, cached', call')
    /\ putval' = [putval EXCEPT !["search"] = heap[call[c].obj]]
    /\ UNCHANGED udoc
    /\ UNCHANGED notAlias

\* ---- dashboard stats ----
\* return _mem_cache: the snapshot dict itself
AliasStatsHit(c) ==
    /\ call[c].pc = "idle"
    /\ cached["stats"] # NoObj
    /\ call' = [call EXCEPT ![c] = [pc |-> "respond", obj |-> cached["stats"], got |-> "hit"]]
    /\ UNCHANGED <<heap, cached, putval, udoc>>
    /\ UNCHANGED notAlias

\* _mem_cache = result; return result (a document read or a recompute)
AliasStatsInstall(c, total) ==
    /\ call[c].pc = "idle"
    /\ HasFree(heap)
    /\ LET new == NewId(heap)
       IN  /\ cached' = [cached EXCEPT !["stats"] = new]
           /\ call' = [call EXCEPT ![c] = [pc |-> "respond", obj |-> new, got |-> "miss"]]
           /\ heap' = Collect([heap EXCEPT ![new] = [total_experiences |-> total]],
                              cached', call')
           /\ putval' = [putval EXCEPT !["stats"] = [total_experiences |-> total]]
    /\ UNCHANGED udoc
    /\ UNCHANGED notAlias

\* The endpoint reads from the dict it holds (.get, sorted, max, dict(list(...)))
\* and builds its response; the request ends.
AliasRespond(c) ==
    /\ call[c].pc \in {"respond", "endpoint"}
    /\ call' = [call EXCEPT ![c] = NoHandle]
    /\ heap' = Collect(heap, cached, call')
    /\ UNCHANGED <<cached, putval, udoc>>
    /\ UNCHANGED notAlias

NextAlias ==
    \/ \E c \in Callers : AliasAuthHit(c)
    \/ \E c \in Callers : AliasAuthFetch(c)
    \/ \E c \in Callers : AliasAuthStore(c)
    \/ \E c \in Callers : AliasUpgrade(c)
    \/ \E c \in Callers : AliasSearchHit(c)
    \/ \E c \in Callers, t \in Totals : AliasSearchBuild(c, t)
    \/ \E c \in Callers : AliasSearchPop(c)
    \/ \E c \in Callers : AliasSearchSet(c)
    \/ \E c \in Callers : AliasStatsHit(c)
    \/ \E c \in Callers, t \in Totals : AliasStatsInstall(c, t)
    \/ \E c \in Callers : AliasRespond(c)

\* C13: whatever the requests do with the dicts they received, the dict a
\* cache holds under a key has the content it had when it was put there, so a
\* later or concurrent get of the key returns what was stored.
C13_NoSharedMutation ==
    \A k \in CacheKinds : cached[k] # NoObj => heap[cached[k]] = putval[k]

\* One request has set user["role"] on the dict an auth cache hit gave it
\* while the cache still holds the entry, and the other request holds the very
\* dict the search cache holds.
C13_Witness ==
    /\ cached["auth"] # NoObj
    /\ heap[cached["auth"]].role = "viewer"
    /\ \E c \in Callers :
          /\ call[c].got = "hit"
          /\ call[c].pc = "endpoint"
          /\ heap[call[c].obj].role = "contributor"
    /\ \E c \in Callers : call[c].pc = "respond" /\ call[c].obj = cached["search"]

----------------------------------------------------------------------------
(***************************************************************************)
(* Frequent questions (dashboard.py): _normalize_question and              *)
(* _compute_question_frequencies as functions of the scanned records.      *)
(* A text is a sequence of characters; a confidence is in tenths.          *)
(***************************************************************************)

MaxPerRecord == 2    \* extracted questions of one record

MinConfidence == 7   \* confidence < 0.7 is skipped
FrequentLimit == 10  \* _compute_question_frequencies(active_snapshots, limit=10)

SnapshotIds == {"e1", "e2"}

\* "Is  it?", "is it", "It", "?!" with full confidence, and "is it" with
\* confidence 0.5.
QuestionDicts ==
    { [question_text |-> <<"I", "s", " ", " ", "i", "t", "?">>, confidence |-> 10],
      [question_text |-> <<"i", "s", " ", "i", "t">>, confidence |-> 10],
      [question_text |-> <<"I", "t">>, confidence |-> 10],
      [question_text |-> <<"?", "!">>, confidence |-> 10],
      [question_text |-> <<"i", "s", " ", "i", "t">>, confidence |-> 5] }

QuestionLists == UNION {[1..n -> QuestionDicts] : n \in 0..MaxPerRecord}

\* str.lower() of one character
LowerChar(ch) == IF ch = "I" THEN "i" ELSE IF ch = "S" THEN "s" ELSE IF ch = "T" THEN "t" ELSE ch

\* \s
IsSpace(ch) == ch = " "

\* [^\w\s]
IsPunct(ch) == ch \in {"?", "!"}

Lower(q) == [i \in DOMAIN q |-> LowerChar(q[i])]

\* str.strip()
RECURSIVE LStrip(_)
LStrip(q) == IF q # <<>> /\ IsSpace(Head(q)) THEN LStrip(Tail(q)) ELSE q

RECURSIVE RStrip(_)
RStrip(q) ==
    IF q # <<>> /\ IsSpace(q[Len(q)]) THEN RStrip(SubSeq(q, 1, Len(q) - 1)) ELSE q

Strip(q) == RStrip(LStrip(q))

\* _STRIP_PUNCT_RE.sub("", q)
StripPunct(q) == SelectSeq(q, LAMBDA ch : ~IsPunct(ch))

\* _COLLAPSE_WS_RE.sub(" ", q): every run of whitespace becomes one space
RECURSIVE CollapseWs(_)
CollapseWs(q) ==
    IF q = <<>> THEN <<>>
    ELSE IF IsSpace(Head(q))
         THEN <<" ">> \o CollapseWs(LStrip(q))
         ELSE <<Head(q)>> \o CollapseWs(Tail(q))

_normalize_question(q) == Strip(CollapseWs(StripPunct(Strip(Lower(q)))))

\* The (experience_id, q) pairs in the order the two loops visit them.
RECURSIVE Visits(_)
Visits(snaps) ==
    IF snaps = <<>> THEN <<>>
    ELSE [i \in DOMAIN Head(snaps).extracted_questions |->
             [id |-> Head(snaps).id, q |-> Head(snaps).extracted_questions[i]]]
         \o Visits(Tail(snaps))

\* Faulty variant: a later record replaces the records collected for the form.
Visit_LastWins(groups, id, q) ==
    IF q.question_text = <<>> \/ q.confidence < MinConfidence THEN groups
    ELSE LET norm == _normalize_question(q.question_text)
         IN  IF norm = <<>> THEN groups
             ELSE IF \E i \in DOMAIN groups : groups[i].norm = norm
                  THEN [i \in DOMAIN groups |->
                           IF groups[i].norm = norm
                           THEN [groups[i] EXCEPT !.ids = {id}]
                           ELSE groups[i]]
                  ELSE Append(groups, [norm |-> norm, original |-> q.question_text,
                                       ids |-> {id}])

\* One pass of the inner loop: norm_to_original and question_ids, kept as one
\* list of groups in the insertion order of the two dicts.
Visit(groups, id, q) ==
    IF q.question_text = <<>> \/ q.confidence < MinConfidence THEN groups
    ELSE LET norm == _normalize_question(q.question_text)
         IN  IF norm = <<>> THEN groups
             ELSE IF \E i \in DOMAIN groups : groups[i].norm = norm
                  THEN [i \in DOMAIN groups |->
                           IF groups[i].norm = norm
                           THEN [groups[i] EXCEPT !.ids = @ \cup {id}]
                           ELSE groups[i]]
                  ELSE Append(groups, [norm |-> norm, original |-> q.question_text,
                                       ids |-> {id}])

\* The groups after the two loops.
QuestionGroups(snaps) ==
    LET visits == Visits(snaps)
        after[n \in 0..Len(visits)] ==
            IF n = 0 THEN <<>> ELSE Visit(after[n - 1], visits[n].id, visits[n].q)
    IN  after[Len(visits)]

\* sorted(items, key=count, reverse=True): stable, so equal counts keep their
\* insertion order.
SortedByCount(items) ==
    LET before(i, j) == items[i].count > items[j].count
                            \/ (items[i].count = items[j].count /\ i < j)
        rank(i) == Cardinality({j \in DOMAIN items : before(j, i)}) + 1
    IN  [p \in DOMAIN items |-> items[CHOOSE i \in DOMAIN items : rank(i) = p]]

\* Faulty variant: a group of one record is kept as well.
_compute_question_frequencies_Any(snaps, limit) ==
    LET kept == SelectSeq(QuestionGroups(snaps), LAMBDA g : Cardinality(g.ids) >= 1)
        frequent == [i \in DOMAIN kept |->
                        [text |-> kept[i].original, count |-> Cardinality(kept[i].ids)]]
        sorted == SortedByCount(frequent)
    IN  SubSeq(sorted, 1, IF Len(sorted) < limit THEN Len(sorted) ELSE limit)

\* The dict _compute_question_frequencies returns, as the list of its items.
_compute_question_frequencies(snaps, limit) ==
    LET kept == SelectSeq(QuestionGroups(snaps), LAMBDA g : Cardinality(g.ids) >= 2)
        frequent == [i \in DOMAIN kept |->
                        [text |-> kept[i].original, count |-> Cardinality(kept[i].ids)]]
        sorted == SortedByCount(frequent)
    IN  SubSeq(sorted, 1, IF Len(sorted) < limit THEN Len(sorted) ELSE limit)

\* question_ids as a set of (norm, ids) pairs: the dedup keys and the
\* contributing records of each.
KeyedIds(groups) == {[norm |-> groups[i].norm, ids |-> groups[i].ids] : i \in DOMAIN groups}

NoRun == [done |-> FALSE]

\* The records a scan can return: e1 and e2 with any lists of questions.
ScannedSnapshots ==
    {<<[id |-> "e1", extracted_questions |-> a], [id |-> "e2", extracted_questions |-> b]>> :
        a \in QuestionLists, b \in QuestionLists}

NoQuestions == <<[id |-> "e1", extracted_questions |-> <<>>],
                 [id |-> "e2", extracted_questions |-> <<>>]>>

DedupInit(snaps) ==
    /\ snapshots = snaps
    /\ run = NoRun
    /\ firstKeyed = Miss

\* The scan hands the records over in another order.
SwapSnapshots ==
    /\ snapshots' = <<snapshots[2], snapshots[1]>>
    /\ run' = NoRun
    /\ UNCHANGED firstKeyed
    /\ UNCHANGED notDedup

\* A record lists its questions in the reverse order.
ReverseQuestions(r) ==
    /\ Len(snapshots[r].extracted_questions) > 1
    /\ snapshots' = [snapshots EXCEPT ![r].extracted_questions =
                        [i \in DOMAIN @ |-> @[Len(@) + 1 - i]]]
    /\ run' = NoRun
    /\ UNCHANGED firstKeyed
    /\ UNCHANGED notDedup

\* frequent_questions = _compute_question_frequencies(active_snapshots, limit=10)
ComputeFrequent ==
    /\ ~run.done
    /\ run' = [done |-> TRUE,
               groups |-> QuestionGroups(snapshots),
               frequent |-> _compute_question_frequencies(snapshots, FrequentLimit)]
    /\ firstKeyed' = IF firstKeyed = Miss
                     THEN [keyed |-> KeyedIds(QuestionGroups(snapshots)),
                           frequent |-> _compute_question_frequencies(snapshots, FrequentLimit)]
                     ELSE firstKeyed
    /\ UNCHANGED snapshots
    /\ UNCHANGED notDedup

NextDedup ==
    \/ SwapSnapshots
    \/ \E r \in 1..2 : ReverseQuestions(r)
    \/ ComputeFrequent

\* The normalized forms of the eligible questions of one record.
NormsOf(snap) ==
    {_normalize_question(snap.extracted_questions[i].question_text) :
        i \in {j \in DOMAIN snap.extracted_questions :
                  snap.extracted_questions[j].confidence >= MinConfidence}} \ {<<>>}

FrequentNorms(frequent) == {_normalize_question(frequent[i].text) : i \in DOMAIN frequent}

\* C14: a normalized form contributed by both records (by questions that are
\* eligible: confidence at least 0.7, form not empty) is one entry of the
\* output with count 2, and a form contributed by one record only, however
\* often, is not in the output.
C14_DedupGroups ==
    /\ _normalize_question(<<"I", "s", " ", " ", "i", "t", "?">>) = <<"i", "s", " ", "i", "t">>
    /\ run.done =>
        /\ \A n \in NormsOf(snapshots[1]) \cap NormsOf(snapshots[2]) :
              /\ Cardinality({i \in DOMAIN run.frequent :
                                 _normalize_question(run.frequent[i].text) = n}) = 1
              /\ \A i \in DOMAIN run.frequent :
                    _normalize_question(run.frequent[i].text) = n =>
                        run.frequent[i].count = 2
        /\ FrequentNorms(run.frequent)
              \subseteq NormsOf(snapshots[1]) \cap NormsOf(snapshots[2])

\* "Is  it?" of one record and "is it" of the other have been counted as one
\* group of 2, while "It", twice in one record only, is left out.
C14_Witness ==
    /\ run.done
    /\ \E r \in 1..2 :
          /\ snapshots[r].extracted_questions
                = << [question_text |-> <<"I", "s", " ", " ", "i", "t", "?">>, confidence |-> 10] >>
          /\ snapshots[3 - r].extracted_questions
                = << [question_text |-> <<"I", "t">>, confidence |-> 10],
                     [question_text |-> <<"i", "s", " ", "i", "t">>, confidence |-> 10] >>
    /\ Len(run.frequent) = 1
    /\ run.frequent[1].count = 2

\* The normalized forms of all the question texts of one record.
AllNormsOf(snap) ==
    {_normalize_question(snap.extracted_questions[i].question_text) :
        i \in DOMAIN snap.extracted_questions}

\* C14 as stated, for every two texts of the same normalized form, whatever
\* their confidence and whatever the form: it is one entry of the output with
\* count 2.
C14_AsStated ==
    run.done =>
        \A n \in AllNormsOf(snapshots[1]) \cap AllNormsOf(snapshots[2]) :
            \E i \in DOMAIN run.frequent :
                /\ _normalize_question(run.frequent[i].text) = n
                /\ run.frequent[i].count = 2

\* C15: whatever the order of the records and of the questions inside a
\* record, the computation finds the same dedup keys with the same
\* contributing record ids, hence the same counts.
C15_OrderIndependent ==
    (run.done /\ firstKeyed # Miss) => KeyedIds(run.groups) = firstKeyed.keyed

\* The records have been recomputed in another order: the keys and their ids
\* are those of the first run, a group of two records among them, although
\* the output now shows another original text for it.
C15_Witness ==
    /\ run.done
    /\ firstKeyed # Miss
    /\ snapshots[1].id = "e2"
    /\ \E g \in KeyedIds(run.groups) : Cardinality(g.ids) = 2
    /\ firstKeyed.frequent # run.frequent

----------------------------------------------------------------------------
(***************************************************************************)
(* Submission and enrichment of one experience (experiences.py):           *)
(* create_experience with its thread _run_background_nlp, and add_questions*)
(* with its thread _run_background_question_enrichment, on the one         *)
(* document create_experience made.  A question dict is kept as its text,   *)
(* its source and its topic.                                               *)
(***************************************************************************)

Adders == {"a1", "a2"}
\* The enrichment thread each add_questions request starts.
Bg(a) == IF a = "a1" THEN "b1" ELSE "b2"
Threads == {"create", "nlp"} \cup Adders \cup {Bg(a) : a \in Adders}

\* payload.user_questions of the submission
CreatePayloads == {<<"what is x", " why y ">>, <<"what is x", "  ">>}
\* payload.questions of add_questions
AddPayloads == {<<"how about z">>, <<" when w ", "hm">>}

\* str.strip() and len() of the texts above
StripText(t) ==
    IF t = " why y " THEN "why y"
    ELSE IF t = " when w " THEN "when w"
    ELSE IF t = "  " THEN ""
    ELSE t

TextLen(t) == IF t = "" THEN 0 ELSE IF t = "hm" THEN 2 ELSE 6

\* pipeline.classify_single_question(text).get("topic", "General")
ClassifyTopic(t) == IF t = "what is x" THEN "Arrays" ELSE "General"

\* pipeline.process(raw_text)["questions"], stamped source = "ai"
AiQuestions == << [question_text |-> "explain v", source |-> "ai", topic |-> "Graphs"] >>

UserQuestion(t) == [question_text |-> t, source |-> "user", topic |-> "General"]

\* _build_user_question_objects: the stripped, non-blank texts, in order
RECURSIVE _build_user_question_objects(_)
_build_user_question_objects(texts) ==
    IF texts = <<>> THEN <<>>
    ELSE IF StripText(Head(texts)) = ""
         THEN _build_user_question_objects(Tail(texts))
         ELSE <<UserQuestion(StripText(Head(texts)))>>
              \o _build_user_question_objects(Tail(texts))

\* The new_questions of add_questions: stripped texts of at least 5 characters
RECURSIVE NewQuestions(_)
NewQuestions(texts) ==
    IF texts = <<>> THEN <<>>
    ELSE IF StripText(Head(texts)) = "" \/ TextLen(StripText(Head(texts))) < 5
         THEN NewQuestions(Tail(texts))
         ELSE <<UserQuestion(StripText(Head(texts)))>> \o NewQuestions(Tail(texts))

\* enriched = {**uq}; enriched["topic"] = classified topic; source stays "user"
Enriched(q) == [q EXCEPT !.topic = ClassifyTopic(q.question_text), !.source = "user"]

TextsOf(qs) == {qs[i].question_text : i \in DOMAIN qs}

\* doc_data of create_experience: the fields this development follows.
DocData(uq) ==
    [exists |-> TRUE,
     submitted |-> "payload",       \* company, role, raw_text, identity fields
     extracted_questions |-> uq,
     user_provided |-> uq,
     ai_extracted |-> <<>>,
     total_question_count |-> Len(uq),
     nlp_status |-> "pending"]

\* A variant of update_data without nlp_status.
NlpUpdate_NoStatus(doc, uq) ==
    LET enriched_user == [i \in DOMAIN uq |-> Enriched(uq[i])]
    IN  [doc EXCEPT
            !.extracted_questions = enriched_user \o AiQuestions,
            !.user_provided = enriched_user,
            !.ai_extracted = AiQuestions,
            !.total_question_count = Len(enriched_user) + Len(AiQuestions)]

\* update_data of _run_background_nlp, from the user questions the thread was
\* started with.
NlpUpdate(doc, uq) ==
    LET enriched_user == [i \in DOMAIN uq |-> Enriched(uq[i])]
    IN  [doc EXCEPT
            !.extracted_questions = enriched_user \o AiQuestions,
            !.user_provided = enriched_user,
            !.ai_extracted = AiQuestions,
            !.total_question_count = Len(enriched_user) + Len(AiQuestions),
            !.nlp_status = "done"]

\* The update of add_questions, from the document it read at its start.
AddUpdate(doc, existing, new) ==
    [doc EXCEPT
        !.extracted_questions = existing.extracted_questions \o new,
        !.user_provided = existing.user_provided \o new,
        !.ai_extracted = existing.ai_extracted,
        !.total_question_count =
            Len(existing.user_provided) + Len(new) + Len(existing.ai_extracted)]

\* _enrichment_update of _run_background_question_enrichment, from the
\* document it re-read.
EnrichUpdate(doc, data) ==
    LET enriched_flat ==
            [i \in DOMAIN data.extracted_questions |->
                IF data.extracted_questions[i].source = "user"
                   /\ data.extracted_questions[i].topic = "General"
                THEN [data.extracted_questions[i] EXCEPT
                         !.topic = ClassifyTopic(data.extracted_questions[i].question_text)]
                ELSE data.extracted_questions[i]]
        up == SelectSeq(enriched_flat, LAMBDA q : q.source = "user")
        ai == SelectSeq(enriched_flat, LAMBDA q : q.source # "user")
    IN  [doc EXCEPT
            !.extracted_questions = enriched_flat,
            !.user_provided = up,
            !.ai_extracted = ai,
            !.total_question_count = Len(up) + Len(ai)]

NoLocals == [uq |-> <<>>, existing |-> NoDoc, new |-> <<>>, failed |-> FALSE]

ExpInit ==
    /\ expDoc = NoDoc
    /\ epc = [t \in Threads |-> IF t \in {"create"} \cup Adders THEN "idle" ELSE "off"]
    /\ eloc = [t \in Threads |-> NoLocals]
    /\ created = Miss
    /\ accepted = {}

\* ---- create_experience ----
\* doc_ref.set(doc_data)
CreateSet(payload) ==
    /\ epc["create"] = "idle"
    /\ LET uq == _build_user_question_objects(payload)
       IN  /\ expDoc' = DocData(uq)
           /\ eloc' = [eloc EXCEPT !["create"].uq = uq]
           /\ accepted' = accepted \cup TextsOf(uq)
    /\ epc' = [epc EXCEPT !["create"] = "start_thread"]
    /\ UNCHANGED created
    /\ UNCHANGED notExp

\* threading.Thread(target=_run_background_nlp, args=(id, raw_text,
\* user_question_objects)).start()
CreateStartThread ==
    /\ epc["create"] = "start_thread"
    /\ epc' = [epc EXCEPT !["create"] = "respond", !["nlp"] = "process"]
    /\ eloc' = [eloc EXCEPT !["nlp"].uq = eloc["create"].uq]
    /\ UNCHANGED <<expDoc, created, accepted>>
    /\ UNCHANGED notExp

\* result = serialize_doc(doc_ref.get()); return result
CreateRespond ==
    /\ epc["create"] = "respond"
    /\ created' = [user_provided |-> expDoc.user_provided,
                   ai_extracted |-> expDoc.ai_extracted,
                   total_question_count |-> expDoc.total_question_count,
                   nlp_status |-> expDoc.nlp_status]
    /\ epc' = [epc EXCEPT !["create"] = "done"]
    /\ UNCHANGED <<expDoc, eloc, accepted>>
    /\ UNCHANGED notExp

\* ---- _run_background_nlp ----
\* pipeline.process and the classification of the user questions; an
\* exception leads to the handler.
NlpProcess(ok) ==
    /\ epc["nlp"] = "process"
    /\ epc' = [epc EXCEPT !["nlp"] = IF ok THEN "write" ELSE "mark_failed"]
    /\ eloc' = [eloc EXCEPT !["nlp"].failed = ~ok]
    /\ UNCHANGED <<expDoc, created, accepted>>
    /\ UNCHANGED notExp

\* document(doc_id).update(update_data); an exception of the store leads to
\* the handler.
NlpWrite(ok) ==
    /\ epc["nlp"] = "write"
    /\ IF ok
       THEN /\ expDoc' = NlpUpdate(expDoc, eloc["nlp"].uq)
            /\ epc' = [epc EXCEPT !["nlp"] = "ended"]
            /\ UNCHANGED eloc
       ELSE /\ epc' = [epc EXCEPT !["nlp"] = "mark_failed"]
            /\ eloc' = [eloc EXCEPT !["nlp"].failed = TRUE]
            /\ UNCHANGED expDoc
    /\ UNCHANGED <<created, accepted>>
    /\ UNCHANGED notExp

\* except Exception: try: update({"nlp_status": "failed"}) except Exception: pass
NlpMarkFailed(ok) ==
    /\ epc["nlp"] = "mark_failed"
    /\ expDoc' = IF ok THEN [expDoc EXCEPT !.nlp_status = "failed"] ELSE expDoc
    /\ epc' = [epc EXCEPT !["nlp"] = "ended"]
    /\ UNCHANGED <<eloc, created, accepted>>
    /\ UNCHANGED notExp

\* ---- add_questions (the client has the id from the response) ----
\* existing = _require_ownership(...); new_questions built; 400 if none
AddRead(a, payload) ==
    /\ epc[a] = "idle"
    /\ epc["create"] = "done"
    /\ NewQuestions(payload) # <<>>
    /\ eloc' = [eloc EXCEPT ![a] = [NoLocals EXCEPT !.existing = expDoc,
                                                   !.new = NewQuestions(payload)]]
    /\ epc' = [epc EXCEPT ![a] = "write"]
    /\ UNCHANGED <<expDoc, created, accepted>>
    /\ UNCHANGED notExp

\* document(experience_id).update({...}) and the read-back for the response
AddWrite(a) ==
    /\ epc[a] = "write"
    /\ expDoc' = AddUpdate(expDoc, eloc[a].existing, eloc[a].new)
    /\ accepted' = accepted \cup TextsOf(eloc[a].new)
    /\ epc' = [epc EXCEPT ![a] = "start_thread"]
    /\ UNCHANGED <<eloc, created>>
    /\ UNCHANGED notExp

\* threading.Thread(target=_run_background_question_enrichment).start();
\* return result
AddStartThread(a) ==
    /\ epc[a] = "start_thread"
    /\ epc' = [epc EXCEPT ![a] = "done", ![Bg(a)] = "read"]
    /\ UNCHANGED <<expDoc, eloc, created, accepted>>
    /\ UNCHANGED notExp

\* ---- _run_background_question_enrichment ----
\* snapshot = document(doc_id).get(); data = snapshot.to_dict()
EnrichRead(a) ==
    /\ epc[Bg(a)] = "read"
    /\ eloc' = [eloc EXCEPT ![Bg(a)].existing = expDoc]
    /\ epc' = [epc EXCEPT ![Bg(a)] = "write"]
    /\ UNCHANGED <<expDoc, created, accepted>>
    /\ UNCHANGED notExp

\* document(doc_id).update(_enrichment_update); except Exception: pass
EnrichWrite(a, ok) ==
    /\ epc[Bg(a)] = "write"
    /\ expDoc' = IF ok THEN EnrichUpdate(expDoc, eloc[Bg(a)].existing) ELSE expDoc
    /\ epc' = [epc EXCEPT ![Bg(a)] = "ended"]
    /\ UNCHANGED <<eloc, created, accepted>>
    /\ UNCHANGED notExp

NextExp ==
    \/ \E payload \in CreatePayloads : CreateSet(payload)
    \/ CreateStartThread
    \/ CreateRespond
    \/ \E ok \in BOOLEAN : NlpProcess(ok)
    \/ \E ok \in BOOLEAN : NlpWrite(ok)
    \/ \E ok \in BOOLEAN : NlpMarkFailed(ok)
    \/ \E a \in Adders, payload \in AddPayloads : AddRead(a, payload)
    \/ \E a \in Adders : AddWrite(a)
    \/ \E a \in Adders : AddStartThread(a)
    \/ \E a \in Adders : EnrichRead(a)
    \/ \E a \in Adders, ok \in BOOLEAN : EnrichWrite(a, ok)

\* C18: the response of create_experience holds exactly the submitted
\* non-blank questions as user_provided with source = "user", no AI question,
\* total_question_count = n and nlp_status = "pending", however the
\* enrichment thread is scheduled.
C18_SynchronousResponse ==
    created # Miss =>
        /\ created.user_provided = eloc["create"].uq
        /\ \A i \in DOMAIN created.user_provided : created.user_provided[i].source = "user"
        /\ created.ai_extracted = <<>>
        /\ created.total_question_count = Len(eloc["create"].uq)
        /\ created.nlp_status = "pending"

\* C19: every question text accepted by create_experience or add_questions
\* is in questions.user_provided of the record, with source = "user", in
\* every later state.
C19_UserQuestionsKept ==
    \A t \in accepted :
        \E i \in DOMAIN expDoc.user_provided :
            /\ expDoc.user_provided[i].question_text = t
            /\ expDoc.user_provided[i].source = "user"

\* C20: when a step of _run_background_nlp has raised, the thread ends with
\* nlp_status = "failed" on the record and with what create_experience wrote
\* still there.
C20_FailureMarked ==
    (epc["nlp"] = "ended" /\ eloc["nlp"].failed) =>
        /\ expDoc.nlp_status = "failed"
        /\ expDoc.submitted = "payload"
        /\ TextsOf(eloc["nlp"].uq) \subseteq TextsOf(expDoc.user_provided)

----------------------------------------------------------------------------
(***************************************************************************)
(* Counter ledger: topic keys and status transitions                       *)
(***************************************************************************)

\* No request on the list is in flight.
AllIdle == \A p \in Workers : lpc[p] = "idle"

\* C22: whenever no request on a practice list is in flight, its
\* topic_distribution holds no key whose count is zero or negative: a topic
\* counter that reaches zero through delete_question or through a topic
\* change in update_question is removed from the map.
C22_NoZeroTopics ==
    AllIdle => \A t \in DOMAIN parent.topic_distribution : parent.topic_distribution[t] > 0

\* In every interleaving the batch of update_question follows the status the
\* handler read from the question before it: the counter of that status goes
\* down by 1 and the counter of the requested one up by 1, with the child
\* written in the same step.
BatchFollowsReadStatus ==
    [][\A p \in Workers :
          (lpc[p] = "upd_batch" /\ lpc'[p] = "upd_read") =>
              LET s == loc[p].old.status
                  t == loc[p].status
              IN  /\ t # s
                  /\ parent'[status_field(s)] = parent[status_field(s)] - 1
                  /\ parent'[status_field(t)] = parent[status_field(t)] + 1
                  /\ \A o \in Statuses \ {s, t} :
                        parent'[status_field(o)] = parent[status_field(o)]
                  /\ parent'.question_count = parent.question_count
                  /\ children'[loc[p].qid].status = t]_vars

\* C23: a write of update_question that changes a child's status from s to
\* t (t different from s) lowers the counter of s by exactly 1 and raises the
\* counter of t by exactly 1 in the same step, and leaves question_count and
\* the third status counter as they were; a write that leaves the child's
\* status as it is changes no status counter.
C23_StatusTransition ==
    [][\A p \in Workers :
          (lpc[p] \in {"upd_batch", "upd_child"} /\ lpc'[p] # lpc[p]
              /\ children[loc[p].qid] # NoDoc) =>
              LET s == children[loc[p].qid].status
                  t == children'[loc[p].qid].status
              IN  /\ parent'.question_count = parent.question_count
                  /\ IF t # s
                     THEN /\ parent'[status_field(s)] = parent[status_field(s)] - 1
                          /\ parent'[status_field(t)] = parent[status_field(t)] + 1
                          /\ \A o \in Statuses \ {s, t} :
                                parent'[status_field(o)] = parent[status_field(o)]
                     ELSE \A o \in Statuses :
                              parent'[status_field(o)] = parent[status_field(o)]]_vars

\* One request at a time, and a reconciliation that runs while no request is
\* in flight: the run starts when the worker is idle and no request starts
\* before it has written.
NextQuietRepair ==
    \/ (rpc # "write" /\ NextSequential)
    \/ (AllIdle /\ RepairScan)
    \/ RepairWrite

\* C26: a reconciliation run on a list with no concurrent mutation leaves the
\* parent, whatever it held before, with question_count, the three status
\* counters and topic_distribution exactly as counted from the live children,
\* with no key for a topic that has no live child.
C26_RepairMatchesChildren ==
    [][(rpc = "write" /\ rpc' = "done") =>
          /\ parent'.question_count = ScanStats(children).question_count
          /\ \A s \in Statuses :
                parent'[status_field(s)] = ScanStats(children)[status_field(s)]
          /\ parent'.topic_distribution = ScanStats(children).topic_distribution]_vars

\* C27: for every interleaving of concurrent add_question, delete_question
\* and status-changing update_question requests on one parent, once all of
\* them have finished (batch and secondary write) revised_percent is
\* 100 * revised_count / question_count of the parent's final counters,
\* rounded to one decimal.
C27_PercentSettles ==
    AllIdle => IsPercentOf(parent.revised_percent, parent.revised_count, parent.question_count)

\* C29: a put evicts only when the insert would otherwise make the map exceed
\* its maximum: the store of get_current_user for a key that is already in
\* the map, or into a map that is not full, removes no entry, and a full map
\* whose key is overwritten still holds its maximum of entries.
C29_EvictOnlyOnOverflow ==
    [][\A a \in AuthRequests :
          (/\ apc[a] = "store"
           /\ apc'[a] = "returned"
           /\ \/ AuthKey(aloc[a].token) \in KeysOf(auth_cache)
              \/ Len(auth_cache) < _AUTH_CACHE_MAX) =>
              /\ KeysOf(auth_cache') = KeysOf(auth_cache) \cup {AuthKey(aloc[a].token)}
              /\ (Len(auth_cache) = _AUTH_CACHE_MAX => Len(auth_cache') = _AUTH_CACHE_MAX)]_vars

----------------------------------------------------------------------------
(***************************************************************************)
(* Aggregate stats: what a recompute counts                                *)
(***************************************************************************)

\* The records of a scan that are not soft-deleted.
NotDeleted(exps) == {e \in ExpIds : exps[e] # NoDoc /\ exps[e].is_active # FALSE}

\* stats counts the records of exps that are not soft-deleted, and nothing else.
CountsOnlyActive(stats, exps) ==
    /\ stats.total_experiences = Cardinality(NotDeleted(exps))
    /\ \A d \in Difficulties :
          Get(stats.difficulty_distribution, d)
              = Cardinality({e \in NotDeleted(exps) : exps[e].difficulty = d})
    /\ \A d \in DOMAIN stats.difficulty_distribution : stats.difficulty_distribution[d] > 0

\* C28: a recompute of the aggregate stats counts only active records:
\* total_experiences is the number of scanned records whose is_active is not
\* false, and a soft-deleted record adds to no counter (no key appears for a
\* value only soft-deleted records have).
C28_OnlyActiveCounted ==
    [][/\ \A t \in RefreshThreads :
             (bpc[t] = "scan" /\ bpc'[t] = "write") => CountsOnlyActive(bloc'[t], experiences)
       /\ \A r \in Readers :
             (cpc[r] = "scan" /\ cpc'[r] = "write") =>
                 CountsOnlyActive(cloc'[r].data, experiences)]_vars

\* A recompute has scanned a collection that holds a soft-deleted record of a
\* difficulty no active record has, and an active one.
C28_Witness ==
    \E r \in Readers :
        /\ cpc[r] = "write"
        /\ \E e \in ExpIds :
              /\ experiences[e] # NoDoc
              /\ ~experiences[e].is_active
              /\ \A f \in NotDeleted(experiences) :
                    experiences[f].difficulty # experiences[e].difficulty
        /\ NotDeleted(experiences) # {}
        /\ cloc[r].data.total_experiences = Cardinality(NotDeleted(experiences))
        /\ DOMAIN cloc[r].data.difficulty_distribution
               = {experiences[f].difficulty : f \in NotDeleted(experiences)}

----------------------------------------------------------------------------
(***************************************************************************)
(* Vector store: unmapped ordinals                                         *)
(***************************************************************************)

\* C30: search on the vector index never raises, and every hit it returns
\* comes from an ordinal that is not the "no result" marker -1 and that has
\* a mapping entry; other ordinals are dropped silently, also when the
\* mapping is shorter than the index or a concurrent rebuild replaces it
\* while the hits are translated.
C30_SearchNeverRaises ==
    /\ spc # "s_raised"
    /\ \A i \in DOMAIN sloc.results : sloc.from[i] >= 0

----------------------------------------------------------------------------
(***************************************************************************)
(* Ownership of mutated records (experiences.py, practice.py,              *)
(* dependencies.py)                                                        *)
(*                                                                         *)
(* One experience and one practice list, both of the same owner, and the   *)
(* nine mutating requests on them, each issued by the owner or by another  *)
(* signed-in user.  A request is get_current_user followed by the handler. *)
(***************************************************************************)

MaxRequests == 3     \* requests started in one behaviour

OwnCallers == {"k1", "k2"}
Owner == "alice"
Principals == {"alice", "bob"}

ExperienceOps == {"soft_delete_experience", "restore_experience",
                  "update_experience_metadata", "add_questions"}
ListOps == {"update_practice_list", "delete_practice_list"}
QuestionOps == {"add_question", "update_question", "delete_question"}
MutatingOps == ExperienceOps \cup ListOps \cup QuestionOps

\* The collection of the record a request is about.
CollectionOf(op) ==
    IF op \in ExperienceOps THEN "interview_experiences" ELSE "practice_lists"

\* The records as the owner created them.
OwnedRecords ==
    [exp |-> [exists |-> TRUE, created_by |-> Owner, is_active |-> TRUE,
              difficulty |-> "Easy", added |-> FALSE],
     list |-> [exists |-> TRUE, user_id |-> Owner, name |-> "list",
               has_question |-> TRUE, status |-> "unvisited"]]

\* The document the handler reads first: the experience, or the list.
RecordOf(rec, op) == IF op \in ExperienceOps THEN rec.exp ELSE rec.list

\* Faulty variant: the ownership comparison always succeeds.
IsOwner_Anyone(doc, op, uid) == TRUE

\* data.get("created_by") != user_uid  /  data.get("user_id") != user_id
IsOwner(doc, op, uid) ==
    IF op \in ExperienceOps THEN doc.created_by = uid ELSE doc.user_id = uid

\* The handler's answer before it writes: 404 for a missing record, 403 for a
\* caller who is not the owner, 404 for a missing question, 400 for nothing
\* to change; "ok" when it goes on to write.
Verdict(rec, op, uid) ==
    IF ~RecordOf(rec, op).exists THEN "not_found"
    ELSE IF ~IsOwner(RecordOf(rec, op), op, uid) THEN "forbidden"
    ELSE IF op \in {"update_question", "delete_question"} /\ ~rec.list.has_question
         THEN "not_found"
    ELSE "ok"

\* The records after the handler's writes (the payload of
\* update_experience_metadata names the other difficulty, update_question the
\* status revised).
ApplyOp(rec, op) ==
    CASE op = "soft_delete_experience" -> [rec EXCEPT !.exp.is_active = FALSE]
      [] op = "restore_experience" -> [rec EXCEPT !.exp.is_active = TRUE]
      [] op = "update_experience_metadata" ->
            [rec EXCEPT !.exp.difficulty = IF @ = "Easy" THEN "Hard" ELSE "Easy"]
      [] op = "add_questions" -> [rec EXCEPT !.exp.added = TRUE]
      [] op = "update_practice_list" -> [rec EXCEPT !.list.name = "renamed"]
      [] op = "delete_practice_list" ->
            [rec EXCEPT !.list.exists = FALSE, !.list.has_question = FALSE]
      [] op = "add_question" ->
            [rec EXCEPT !.list.has_question = TRUE, !.list.status = "unvisited"]
      [] op = "update_question" -> [rec EXCEPT !.list.status = "revised"]
      [] op = "delete_question" -> [rec EXCEPT !.list.has_question = FALSE]

\* The thread a handler starts after its write: the stats refresh, or the
\* question enrichment (which adds a vector); the practice handlers start none.
ThreadOf(op) ==
    IF op = "add_questions" THEN {"enrich"}
    ELSE IF op \in ExperienceOps THEN {"refresh"}
    ELSE {}

NoRequest == [pc |-> "idle", uid |-> None, op |-> None, response |-> None,
              wrote |-> {}, not_owner |-> FALSE]

OwnInit ==
    /\ orec = OwnedRecords
    /\ ousers = {Owner}
    /\ otasks = {}
    /\ ovec = 0
    /\ oreq = [c \in OwnCallers |-> NoRequest]
    /\ oreqs = 0

\* get_current_user with a valid token of uid: _get_or_create_user writes the
\* users document of a uid that has none yet. (The request before, if any,
\* has been answered.)
OwnAuthenticate(c, uid, op) ==
    /\ oreq[c].pc \in {"idle", "answered"}
    /\ oreqs < MaxRequests
    /\ oreqs' = oreqs + 1
    /\ ousers' = ousers \cup {uid}
    /\ oreq' = [oreq EXCEPT ![c] =
                   [NoRequest EXCEPT !.pc = "handler", !.uid = uid, !.op = op,
                                     !.wrote = IF uid \in ousers THEN {} ELSE {"users"}]]
    /\ UNCHANGED <<orec, otasks, ovec>>
    /\ UNCHANGED notOwn

\* The handler: the read of the record, the checks, and for the owner the
\* writes and the thread start.
OwnHandle(c) ==
    /\ oreq[c].pc = "handler"
    /\ LET op == oreq[c].op
           v == Verdict(orec, op, oreq[c].uid)
           doc == RecordOf(orec, op)
           denied == doc.exists /\ oreq[c].uid # Owner
       IN  /\ orec' = IF v = "ok" THEN ApplyOp(orec, op) ELSE orec
           /\ otasks' = IF v = "ok" THEN otasks \cup ThreadOf(op) ELSE otasks
           /\ oreq' = [oreq EXCEPT
                          ![c].pc = "answered",
                          ![c].response = v,
                          ![c].not_owner = denied,
                          ![c].wrote = @ \cup (IF v = "ok" THEN {CollectionOf(op)} ELSE {})
                                         \cup (IF v = "ok" /\ ThreadOf(op) # {}
                                               THEN {"threads"} ELSE {})]
    /\ UNCHANGED <<ousers, ovec, oreqs>>
    /\ UNCHANGED notOwn

\* A started thread runs: the enrichment adds a vector to the index.
OwnThreadRun(t) ==
    /\ t \in otasks
    /\ otasks' = otasks \ {t}
    /\ ovec' = IF t = "enrich" THEN ovec + 1 ELSE ovec
    /\ UNCHANGED <<orec, ousers, oreq, oreqs>>
    /\ UNCHANGED notOwn

NextOwn ==
    \/ \E c \in OwnCallers, uid \in Principals, op \in MutatingOps : OwnAuthenticate(c, uid, op)
    \/ \E c \in OwnCallers : OwnHandle(c)
    \/ \E t \in {"enrich", "refresh"} : OwnThreadRun(t)

\* C21: a mutating request on an existing experience, practice list or
\* question of a list, issued by a user who is not the owner, is answered
\* Forbidden and writes nothing to the record's collection, starts no
\* thread (so nothing reaches the vector index); the one write it can make is
\* the creation of the caller's own users document by get_current_user.
C21_ForbiddenWritesNothing ==
    \A c \in OwnCallers :
        (oreq[c].pc = "answered" /\ oreq[c].not_owner) =>
            /\ oreq[c].response = "forbidden"
            /\ oreq[c].wrote \subseteq {"users"}

\* A user who is not the owner has asked to delete the list, which is still
\* there with its question, and has been answered Forbidden.
C21_Witness ==
    \E c \in OwnCallers :
        /\ oreq[c].pc = "answered"
        /\ oreq[c].uid = "bob"
        /\ oreq[c].op = "delete_practice_list"
        /\ oreq[c].response = "forbidden"
        /\ oreq[c].wrote = {}
        /\ orec.list.exists
        /\ orec.list.has_question

\* The statement with no write at all: the store as a whole is unchanged by
\* a request answered Forbidden.
C21_AsStated ==
    \A c \in OwnCallers :
        (oreq[c].pc = "answered" /\ oreq[c].not_owner) =>
            /\ oreq[c].response = "forbidden"
            /\ oreq[c].wrote = {}

----------------------------------------------------------------------------
(***************************************************************************)
(* The search endpoint (search.py) over the experiences, with soft delete  *)
(* and restore (experiences.py)                                            *)
(***************************************************************************)

MaxSearches == 2     \* search requests started in one behaviour
MaxToggles == 2      \* soft deletes and restores in one behaviour

Searchers == {"s1"}
\* The ids the vector index knows: "d0" has a vector and no document.
CandidateIds == {"d0", "d1", "d2"}
Limits == {1, 2}
Modes == {"semantic", "keyword"}

\* The parameters of a request (what _cache_key hashes): the mode with its
\* query, the difficulty filter and the limit.
SrKeys == [mode : Modes, difficulty : {None, "Hard"}, limit : Limits]

\* The collection before the requests.
SeededDocs ==
    [d \in CandidateIds |->
        CASE d = "d0" -> NoDoc
          [] d = "d1" -> [exists |-> TRUE, id |-> d, is_active |-> TRUE, difficulty |-> "Easy"]
          [] d = "d2" -> [exists |-> TRUE, id |-> d, is_active |-> TRUE, difficulty |-> "Hard"]]

\* faiss_store.search(query_vector, k): (doc_id, score) pairs, best first;
\* scores in hundredths.
Candidates ==
    << <<"d0", 95>>, <<"d1", 90>>, <<"d2", 70>> >>
\* The records add_questions is called on.
EnrichedIds == {"d1"}
\* The score of a vector added later for a record.
SecondScore == 40

\* score_map.get(snapshot.id, 0)
ScoreOf(cands, id) ==
    IF \E i \in DOMAIN cands : cands[i][1] = id
    THEN cands[CHOOSE i \in DOMAIN cands : cands[i][1] = id /\
                   \A j \in DOMAIN cands : cands[j][1] = id => j <= i][2]
    ELSE 0

\* The orders db.get_all may yield the snapshots in.
Orders == {o \in [1..Cardinality(CandidateIds) -> CandidateIds] :
              \A d \in CandidateIds : \E i \in DOMAIN o : o[i] = d}

\* _apply_filters, for the difficulty filter.
_apply_filters(data, difficulty) ==
    difficulty = None \/ data.difficulty = difficulty

\* A hydrated snapshot passes the checks of the loop.
Qualifies(snap, difficulty) ==
    /\ snap # NoDoc
    /\ snap.is_active
    /\ _apply_filters(snap, difficulty)

\* The loop of the similarity branch: the qualifying snapshots in the order
\* given, each with its score, until `limit` of them are collected (break).
RECURSIVE Collect_(_, _, _, _, _)
Collect_(snaps, cands, difficulty, limit, acc) ==
    IF snaps = <<>> \/ Len(acc) >= limit THEN acc
    ELSE IF Qualifies(Head(snaps), difficulty)
         THEN Collect_(Tail(snaps), cands, difficulty, limit,
                       Append(acc, [id |-> Head(snaps).id,
                                    score |-> ScoreOf(cands, Head(snaps).id)]))
         ELSE Collect_(Tail(snaps), cands, difficulty, limit, acc)

\* results.sort(key=score, reverse=True): stable, highest first.
RECURSIVE SortByScore(_)
SortByScore(rs) ==
    IF rs = <<>> THEN <<>>
    ELSE LET i == CHOOSE i \in DOMAIN rs :
                     \A j \in DOMAIN rs :
                         rs[i].score > rs[j].score \/ (rs[i].score = rs[j].score /\ i <= j)
         IN  <<rs[i]>> \o SortByScore([k \in 1..(Len(rs) - 1) |->
                                          IF k < i THEN rs[k] ELSE rs[k + 1]])

\* The response of the similarity branch.
SemanticResponse(snaps, cands, difficulty, limit) ==
    LET results == SortByScore(Collect_(snaps, cands, difficulty, limit, <<>>))
    IN  [results |-> SubSeq(results, 1, IF Len(results) < limit THEN Len(results) ELSE limit),
         total |-> Len(results)]

\* The response of the filter branch: the streamed snapshots that are active,
\* in the order of the stream, until `limit` are collected; no score.
RECURSIVE KeywordCollect(_, _, _)
KeywordCollect(snaps, limit, acc) ==
    IF snaps = <<>> \/ Len(acc) >= limit THEN acc
    ELSE IF Head(snaps).is_active
         THEN KeywordCollect(Tail(snaps), limit, Append(acc, [id |-> Head(snaps).id, score |-> 0]))
         ELSE KeywordCollect(Tail(snaps), limit, acc)

KeywordResponse(snaps, limit) ==
    [results |-> KeywordCollect(snaps, limit, <<>>),
     total |-> Len(KeywordCollect(snaps, limit, <<>>))]

\* query.where("difficulty", "==", d).stream(): the documents the store
\* selects, in its own order.
StreamOf(docs, difficulty) ==
    LET all == <<docs["d1"], docs["d2"]>>
    IN  SelectSeq(all, LAMBDA s : difficulty = None \/ s.difficulty = difficulty)

IdsOf(resp) == {resp.results[i].id : i \in DOMAIN resp.results}

NoSearchCall == [key |-> None, snaps |-> <<>>, cands |-> <<>>, response |-> Miss, from_cache |-> FALSE,
                 hidden |-> {}]

SrInit ==
    /\ sdocs = SeededDocs
    /\ rcache = <<>>
    /\ srpc = [s \in Searchers |-> "idle"]
    /\ srloc = [s \in Searchers |-> NoSearchCall]
    /\ hiddenNow = {}
    /\ srStarted = 0
    /\ srToggles = 0
    /\ svecs = Candidates

\* soft_delete_experience by the owner: update({"is_active": False}); the
\* request returns.
SrSoftDelete(d) ==
    /\ srToggles < MaxToggles
    /\ sdocs[d] # NoDoc
    /\ sdocs' = [sdocs EXCEPT ![d].is_active = FALSE]
    /\ hiddenNow' = hiddenNow \cup {d}
    /\ srToggles' = srToggles + 1
    /\ UNCHANGED <<rcache, srpc, srloc, srStarted, svecs>>
    /\ UNCHANGED notSr

\* restore_experience by the owner: update({"is_active": True}). A search in
\* flight is no longer "before a restore" for d.
SrRestore(d) ==
    /\ srToggles < MaxToggles
    /\ sdocs[d] # NoDoc
    /\ sdocs' = [sdocs EXCEPT ![d].is_active = TRUE]
    /\ hiddenNow' = hiddenNow \ {d}
    /\ srloc' = [s \in Searchers |-> [srloc[s] EXCEPT !.hidden = @ \ {d}]]
    /\ srToggles' = srToggles + 1
    /\ UNCHANGED <<rcache, srpc, srStarted, svecs>>
    /\ UNCHANGED notSr

\* search: cached = _get_cached(ck); if cached is not None: return cached.
\* hidden: the records hidden when the request is issued (history).
SrStart(s, key) ==
    /\ srpc[s] \in {"idle", "answered"}
    /\ srStarted < MaxSearches
    /\ srStarted' = srStarted + 1
    /\ LET entry == Lookup(rcache, key)
           hit == entry # Miss /\ IsFresh(entry.ts, clock, _SEARCH_CACHE_TTL)
       IN  /\ rcache' = IF hit THEN rcache ELSE Remove(rcache, key)
           /\ srloc' = [srloc EXCEPT ![s] =
                           [NoSearchCall EXCEPT
                               !.key = key, !.hidden = hiddenNow,
                               !.response = IF hit THEN entry.data ELSE Miss,
                               !.from_cache = hit]]
           /\ srpc' = [srpc EXCEPT ![s] =
                          IF hit THEN "answered"
                          ELSE IF key.mode = "semantic" THEN "hydrate" ELSE "stream"]
    /\ UNCHANGED <<sdocs, hiddenNow, srToggles, svecs>>
    /\ UNCHANGED notSr

\* candidates = faiss_store.search(...); snapshots = db.get_all(doc_refs), in
\* an order of the store's choosing.
SrHydrate(s, order) ==
    /\ srpc[s] = "hydrate"
    /\ srloc' = [srloc EXCEPT ![s].cands = svecs,
                              ![s].snaps = [i \in DOMAIN order |-> sdocs[order[i]]]]
    /\ srpc' = [srpc EXCEPT ![s] = "rank"]
    /\ UNCHANGED <<sdocs, rcache, hiddenNow, srStarted, srToggles, svecs>>
    /\ UNCHANGED notSr

\* snapshots = list(query.stream())
SrStream(s) ==
    /\ srpc[s] = "stream"
    /\ srloc' = [srloc EXCEPT ![s].snaps = StreamOf(sdocs, srloc[s].key.difficulty)]
    /\ srpc' = [srpc EXCEPT ![s] = "rank"]
    /\ UNCHANGED <<sdocs, rcache, hiddenNow, srStarted, srToggles, svecs>>
    /\ UNCHANGED notSr

\* The loop over the snapshots, the sort and the cut; _set_cached(ck, result);
\* return result.
SrRespond(s) ==
    /\ srpc[s] = "rank"
    /\ LET key == srloc[s].key
           result == IF key.mode = "semantic"
                     THEN SemanticResponse(srloc[s].snaps, srloc[s].cands, key.difficulty, key.limit)
                     ELSE KeywordResponse(srloc[s].snaps, key.limit)
       IN  /\ rcache' = Put(rcache, _SEARCH_CACHE_MAX, key, clock, result)
           /\ srloc' = [srloc EXCEPT ![s].response = result, ![s].snaps = <<>>, ![s].cands = <<>>]
    /\ srpc' = [srpc EXCEPT ![s] = "answered"]
    /\ UNCHANGED <<sdocs, hiddenNow, srStarted, srToggles, svecs>>
    /\ UNCHANGED notSr

\* _run_background_question_enrichment after add_questions on d:
\* faiss_store.add_vector(new_embedding, doc_id) adds a second vector for the
\* record; the query scores it below the vectors already there.
SrEnrich(d) ==
    /\ Len(svecs) = Len(Candidates)
    /\ sdocs[d] # NoDoc
    /\ svecs' = Append(svecs, <<d, SecondScore>>)
    /\ UNCHANGED <<sdocs, rcache, srpc, srloc, hiddenNow, srStarted, srToggles>>
    /\ UNCHANGED notSr

NextSr ==
    \/ Tick
    \/ \E d \in EnrichedIds : SrEnrich(d)
    \/ \E d \in CandidateIds : SrSoftDelete(d)
    \/ \E d \in CandidateIds : SrRestore(d)
    \/ \E s \in Searchers, key \in SrKeys : SrStart(s, key)
    \/ \E s \in Searchers, order \in Orders : SrHydrate(s, order)
    \/ \E s \in Searchers : SrStream(s)
    \/ \E s \in Searchers : SrRespond(s)

\* C24: in similarity mode search returns at most `limit` results, sorted by
\* score descending, and no candidate that exists, is active and passes the
\* filters is left out while it has a higher score than a returned one,
\* whatever order the store gave the hydrated documents in.
C24_TopByScore ==
    [][\A s \in Searchers :
          (srpc[s] = "rank" /\ srpc'[s] = "answered" /\ srloc[s].key.mode = "semantic") =>
              LET rs == srloc'[s].response.results
                  snaps == srloc[s].snaps
                  left == {i \in DOMAIN snaps :
                              /\ Qualifies(snaps[i], srloc[s].key.difficulty)
                              /\ snaps[i].id \notin IdsOf(srloc'[s].response)}
              IN  /\ Len(rs) <= srloc[s].key.limit
                  /\ \A i, j \in DOMAIN rs : i < j => rs[i].score >= rs[j].score
                  /\ \A i \in left, j \in DOMAIN rs :
                        ScoreOf(srloc[s].cands, snaps[i].id) <= rs[j].score]_vars

\* The best score among the stored vectors of a record.
BestScore(cands, id) ==
    CHOOSE x \in {cands[i][2] : i \in {j \in DOMAIN cands : cands[j][1] = id}} :
        \A i \in DOMAIN cands : cands[i][1] = id => cands[i][2] <= x

\* C38: a similarity response holds each record at most once and reports
\* for it the highest score among the vectors stored for that record, also
\* when a second vector for the same record id is in the index.
C38_OncePerRecordBestScore ==
    [][\A s \in Searchers :
          (srpc[s] = "rank" /\ srpc'[s] = "answered" /\ srloc[s].key.mode = "semantic") =>
              LET rs == srloc'[s].response.results
              IN  /\ \A i, j \in DOMAIN rs : i # j => rs[i].id # rs[j].id
                  /\ \A i \in DOMAIN rs :
                        rs[i].score = BestScore(srloc[s].cands, rs[i].id)]_vars

\* C25: once soft_delete_experience has returned for a record, no search
\* response issued afterwards and before a restore contains it, in
\* similarity or in filter mode, for any parameters.
C25_HiddenFromSearch ==
    \A s \in Searchers :
        srpc[s] = "answered" => srloc[s].hidden \cap IdsOf(srloc[s].response) = {}

----------------------------------------------------------------------------
(***************************************************************************)
(* Experiences: the fields a background update sends                       *)
(***************************************************************************)

_IDENTITY_FIELDS == {"is_anonymous", "author", "show_name", "contributor_name", "created_by"}

\* A variant of update_data that carries the author again.
NlpUpdateFields_Author(embedded) ==
    {"extracted_questions", "questions", "stats", "topics", "summary", "nlp_status",
     "edit_history", "author"}

\* The keys of update_data in _run_background_nlp; embedding_id only when
\* the vector was stored.
NlpUpdateFields(embedded) ==
    {"extracted_questions", "questions", "stats", "topics", "summary", "nlp_status",
     "edit_history"} \cup (IF embedded THEN {"embedding_id"} ELSE {})

\* The keys of the update in the exception handler of _run_background_nlp.
NlpFailedFields == {"nlp_status"}

\* The keys of _enrichment_update in _run_background_question_enrichment.
EnrichUpdateFields == {"extracted_questions", "questions", "stats", "topics"}

\* A step in which a background thread sends an update to the store.
BackgroundWrites ==
    \/ epc["nlp"] \in {"write", "mark_failed"} /\ epc'["nlp"] = "ended"
    \/ \E a \in Adders : epc[Bg(a)] = "write" /\ epc'[Bg(a)] = "ended"

\* C31: no update a background thread (_run_background_nlp, its failure
\* handler, _run_background_question_enrichment) sends to the store names an
\* identity field, so neither assertion fails and what create_experience
\* submitted for these fields stays on the record.
C31_IdentityUntouched ==
    [][BackgroundWrites =>
          /\ \A embedded \in BOOLEAN : NlpUpdateFields(embedded) \cap _IDENTITY_FIELDS = {}
          /\ NlpFailedFields \cap _IDENTITY_FIELDS = {}
          /\ EnrichUpdateFields \cap _IDENTITY_FIELDS = {}
          /\ expDoc'.submitted = expDoc.submitted]_vars

C31_Witness ==
    /\ epc["nlp"] = "ended"
    /\ expDoc.nlp_status = "done"
    /\ \E a \in Adders : epc[Bg(a)] = "ended"
    /\ expDoc.submitted = "payload"

----------------------------------------------------------------------------
(***************************************************************************)
(* The user profile (users.py) and the identity a submission stores        *)
(* (experiences.py create_experience, serialization.py)                    *)
(***************************************************************************)

MaxUserRequests == 3     \* requests of the user started in one behaviour
\* _NAME_COOLDOWN_DAYS (30 days), in ticks.
_NAME_COOLDOWN_DAYS == 2

UsrCallers == {"u1", "u2"}
\* payload.name (min_length 1: a blank string passes the schema)
Names == {"Ravi", "  "}
Uid == "alice"

\* _derive_display_name: first name and the initial of the last, or the only
\* part, or "" when the name is blank.
_derive_display_name(full_name) ==
    CASE full_name = "Asha Rao" -> "Asha R."
      [] full_name = "Ravi" -> "Ravi"
      [] OTHER -> ""

\* str.strip() of a stored label
StripLabel(l) == IF l = "  " THEN "" ELSE l

\* _get_contributor_display(data) of serialize_doc
_get_contributor_display(data) ==
    LET author == data.author
        visibility == IF "visibility" \in DOMAIN author THEN author.visibility ELSE ""
        label == IF "public_label" \in DOMAIN author THEN StripLabel(author.public_label) ELSE ""
    IN  IF visibility = "public" /\ label # ""
        THEN label
        ELSE IF DOMAIN author = {} /\ ~data.is_anonymous /\ data.show_name
                /\ _derive_display_name(data.contributor_name) # ""
             THEN _derive_display_name(data.contributor_name)
             ELSE "Anonymous (CBIT)"

\* author of create_experience
BuildAuthor(payload, display_name) ==
    IF payload.show_name /\ display_name # ""
    THEN [uid |-> Uid, visibility |-> "public", public_label |-> display_name]
    ELSE [visibility |-> "anonymous"]

\* The identity fields of doc_data in create_experience, from the payload,
\* the user of the request and the users document it read.
IdentityOf(payload, user, user_data) ==
    LET contributor_name == user.name
        display_name == IF user_data.display_name # "" THEN user_data.display_name
                        ELSE _derive_display_name(contributor_name)
    IN  [exists |-> TRUE,
         created_by |-> Uid,
         contributor_name |-> contributor_name,
         author |-> BuildAuthor(payload, display_name),
         show_name |-> payload.show_name,
         is_anonymous |-> payload.is_anonymous]

ExperiencePayloads == [is_anonymous : BOOLEAN, show_name : BOOLEAN]
UserPayloads == [name : Names, role : Roles]

\* The users document as _get_or_create_user leaves it on a first sign-in:
\* no display_name, no name_last_updated_at.
FirstProfile ==
    [exists |-> TRUE, name |-> "Asha Rao", display_name |-> "", role |-> "viewer",
     name_last_updated_at |-> <<>>]

NoUsrLocals == [op |-> None, payload |-> None, user |-> NoDoc, snapshot |-> NoDoc,
                now |-> 0, status |-> None]

UsrInit ==
    /\ profile = FirstProfile
    /\ upc = [c \in UsrCallers |-> "idle"]
    /\ uloc = [c \in UsrCallers |-> NoUsrLocals]
    /\ submission = NoDoc
    /\ nameChanges = <<>>
    /\ ureqs = 0

\* ---- create_or_update_user ----
\* user = get_current_user(); snapshot = doc_ref.get()
CuRead(c, payload) ==
    /\ upc[c] = "idle"
    /\ ureqs < MaxUserRequests
    /\ ureqs' = ureqs + 1
    /\ uloc' = [uloc EXCEPT ![c] = [NoUsrLocals EXCEPT !.op = "create_or_update_user",
                                       !.payload = payload, !.snapshot = profile]]
    /\ upc' = [upc EXCEPT ![c] = "cu_write"]
    /\ UNCHANGED <<profile, submission, nameChanges>>
    /\ UNCHANGED notUsr

\* base built from the payload and the snapshot; doc_ref.set({**base}, merge=True)
CuWrite(c) ==
    /\ upc[c] = "cu_write"
    /\ LET payload == uloc[c].payload
           existing == uloc[c].snapshot
       IN  profile' = [profile EXCEPT
               !.name = IF existing.name # "" THEN existing.name ELSE payload.name,
               !.display_name = IF existing.display_name # "" THEN existing.display_name
                                ELSE _derive_display_name(payload.name),
               !.role = IF existing.role = "contributor" THEN "contributor" ELSE payload.role]
    /\ uloc' = [uloc EXCEPT ![c] = [NoUsrLocals EXCEPT !.status = "ok"]]
    /\ upc' = [upc EXCEPT ![c] = "idle"]
    /\ UNCHANGED <<submission, nameChanges, ureqs>>
    /\ UNCHANGED notUsr

\* ---- create_experience ----
\* user = get_current_user(); if user.get("role") != "contributor":
\* set({"role": "contributor"}, merge=True)
CeUpgrade(c, payload) ==
    /\ upc[c] = "idle"
    /\ ureqs < MaxUserRequests
    /\ ureqs' = ureqs + 1
    /\ profile' = IF profile.role # "contributor"
                  THEN [profile EXCEPT !.role = "contributor"] ELSE profile
    /\ uloc' = [uloc EXCEPT ![c] = [NoUsrLocals EXCEPT !.op = "create_experience",
                                       !.payload = payload, !.user = profile]]
    /\ upc' = [upc EXCEPT ![c] = "ce_read"]
    /\ UNCHANGED <<submission, nameChanges>>
    /\ UNCHANGED notUsr

\* user_doc = db.collection("users").document(uid).get()
CeReadUser(c) ==
    /\ upc[c] = "ce_read"
    /\ uloc' = [uloc EXCEPT ![c].snapshot = profile]
    /\ upc' = [upc EXCEPT ![c] = "ce_set"]
    /\ UNCHANGED <<profile, submission, nameChanges, ureqs>>
    /\ UNCHANGED notUsr

\* author built; doc_ref.set(doc_data)
CeSet(c) ==
    /\ upc[c] = "ce_set"
    /\ submission' = IdentityOf(uloc[c].payload, uloc[c].user, uloc[c].snapshot)
    /\ uloc' = [uloc EXCEPT ![c] = [NoUsrLocals EXCEPT !.status = "ok"]]
    /\ upc' = [upc EXCEPT ![c] = "idle"]
    /\ UNCHANGED <<profile, nameChanges, ureqs>>
    /\ UNCHANGED notUsr

\* ---- update_display_name ----
\* snapshot = doc_ref.get(); now = datetime.now(); the cooldown test: 429 when
\* now < last + _NAME_COOLDOWN_DAYS
NameRead(c, name) ==
    /\ upc[c] = "idle"
    /\ ureqs < MaxUserRequests
    /\ ureqs' = ureqs + 1
    /\ LET last_updated == profile.name_last_updated_at
           rejected == last_updated # <<>> /\ clock < last_updated[1] + _NAME_COOLDOWN_DAYS
       IN  /\ uloc' = [uloc EXCEPT ![c] =
                           IF rejected THEN [NoUsrLocals EXCEPT !.status = "rejected"]
                           ELSE [NoUsrLocals EXCEPT !.op = "update_display_name",
                                                    !.payload = name, !.now = clock]]
           /\ upc' = [upc EXCEPT ![c] = IF rejected THEN "idle" ELSE "nm_write"]
    /\ UNCHANGED <<profile, submission, nameChanges>>
    /\ UNCHANGED notUsr

\* doc_ref.update({name, display_name, name_last_updated_at: now})
NameWrite(c) ==
    /\ upc[c] = "nm_write"
    /\ profile' = [profile EXCEPT !.name = uloc[c].payload,
                                  !.display_name = _derive_display_name(uloc[c].payload),
                                  !.name_last_updated_at = <<uloc[c].now>>]
    /\ nameChanges' = Append(nameChanges, clock)
    /\ uloc' = [uloc EXCEPT ![c] = [NoUsrLocals EXCEPT !.status = "ok"]]
    /\ upc' = [upc EXCEPT ![c] = "idle"]
    /\ UNCHANGED <<submission, ureqs>>
    /\ UNCHANGED notUsr

NextUsr ==
    \/ Tick
    \/ \E c \in UsrCallers, payload \in UserPayloads : CuRead(c, payload)
    \/ \E c \in UsrCallers : CuWrite(c)
    \/ \E c \in UsrCallers, payload \in ExperiencePayloads : CeUpgrade(c, payload)
    \/ \E c \in UsrCallers : CeReadUser(c)
    \/ \E c \in UsrCallers : CeSet(c)
    \/ \E c \in UsrCallers, name \in Names : NameRead(c, name)
    \/ \E c \in UsrCallers : NameWrite(c)

\* C32: a record created with is_anonymous = true stores an author of
\* visibility "anonymous" with no uid and no public_label, and its public
\* contributor_display is "Anonymous (CBIT)", whatever show_name and the
\* user's profile are.
C32_AnonymousCarriesNoIdentity ==
    (submission # NoDoc /\ submission.is_anonymous) =>
        /\ submission.author.visibility = "anonymous"
        /\ "uid" \notin DOMAIN submission.author
        /\ "public_label" \notin DOMAIN submission.author
        /\ _get_contributor_display(submission) = "Anonymous (CBIT)"

\* C33: once the users document has role = contributor it has role =
\* contributor in every later state, under any interleaving of
\* create_or_update_user and create_experience requests.
C33_RoleNeverRegresses ==
    [][profile.role = "contributor" => profile'.role = "contributor"]_vars

\* C34: any two successful name changes of a user are at least
\* _NAME_COOLDOWN_DAYS apart, under any interleaving of update_display_name
\* requests.
C34_NameCooldown ==
    \A i, j \in DOMAIN nameChanges :
        i < j => nameChanges[j] - nameChanges[i] >= _NAME_COOLDOWN_DAYS

\* A request rejected by the cooldown (the only step that starts a request
\* and leaves every position as it is) changes nothing in the users document.
RejectedChangesNothing ==
    [][(ureqs' # ureqs /\ upc' = upc) => profile' = profile]_vars

----------------------------------------------------------------------------
(***************************************************************************)
(* Experiences: the enrichment thread runs to its end                      *)
(***************************************************************************)

\* The steps of the system when the store answers every write.
NextExpAvailable ==
    \/ \E payload \in CreatePayloads : CreateSet(payload)
    \/ CreateStartThread
    \/ CreateRespond
    \/ \E ok \in BOOLEAN : NlpProcess(ok)
    \/ NlpWrite(TRUE)
    \/ NlpMarkFailed(TRUE)
    \/ \E a \in Adders, payload \in AddPayloads : AddRead(a, payload)
    \/ \E a \in Adders : AddWrite(a)
    \/ \E a \in Adders : AddStartThread(a)
    \/ \E a \in Adders : EnrichRead(a)
    \/ \E a \in Adders : EnrichWrite(a, TRUE)

\* The steps of the thread of _run_background_nlp with the store available.
NlpThreadStep ==
    \/ \E ok \in BOOLEAN : NlpProcess(ok)
    \/ NlpWrite(TRUE)
    \/ NlpMarkFailed(TRUE)

\* The handler goes on to start the thread, and the thread is scheduled.
ExpFairness == WF_vars(CreateStartThread) /\ WF_vars(NlpThreadStep)

\* C35: with the enrichment thread fairly scheduled and the store available,
\* every record create_experience wrote eventually has nlp_status "done" or
\* "failed", and once it has, no step changes nlp_status again.
C35_LeavesPending ==
    /\ (expDoc # NoDoc) ~> (expDoc # NoDoc /\ expDoc.nlp_status \in {"done", "failed"})
    /\ [][(expDoc # NoDoc /\ expDoc.nlp_status \in {"done", "failed"}) =>
              expDoc'.nlp_status = expDoc.nlp_status]_vars

C35_Witness ==
    /\ expDoc # NoDoc
    /\ expDoc.nlp_status = "failed"
    /\ epc["nlp"] = "ended"
    /\ \E a \in Adders : epc[Bg(a)] = "ended"

----------------------------------------------------------------------------
(***************************************************************************)
(* Counter ledger: the counters once every request and the startup         *)
(* reconciliation have finished                                            *)
(***************************************************************************)

\* C36: for every interleaving of concurrent add_question, delete_question
\* and update_question requests and the startup reconciliation on one list,
\* once all of them have finished question_count is the number of live
\* children and each status counter is the number of live children with that
\* status, so no counter is negative.
C36_CountersMatchChildren ==
    (AllIdle /\ rpc = "done") =>
        /\ parent.question_count = ScanStats(children).question_count
        /\ \A s \in Statuses :
              /\ parent[status_field(s)] = ScanStats(children)[status_field(s)]
              /\ parent[status_field(s)] >= 0

----------------------------------------------------------------------------
(***************************************************************************)
(* The cache key of a search request (search.py _cache_key)                *)
(***************************************************************************)

MaxKeyRequests == 3     \* search requests in one behaviour

\* Texts are sequences of tokens: a letter, the bar, or the word None.
\* The values company and role can have after strip(): a non-empty text, or
\* None (written <<>>: an empty text becomes None at search.py:162-163).
ParamValues == {<<>>, <<"x">>, <<"x", "|", "x">>, <<"None">>}
\* The parameter tuples (company, role); q, mode, year, topic, difficulty and
\* limit are the same in every request.
ParamTuples == ParamValues \X ParamValues

\* str(p)
Str(p) == IF p = <<>> THEN <<"None">> ELSE p

\* _cache_key(*parts): "|".join(str(p) for p in parts), the digest taken as
\* collision-free.
_cache_key(parts) == Str(parts[1]) \o <<"|">> \o Str(parts[2])

NoKeyRequest == [params |-> <<>>, cached |-> FALSE, served |-> <<>>]

KeyInit ==
    /\ kcache = {}
    /\ kreq = NoKeyRequest
    /\ kreqs = 0

\* search: ck = _cache_key(...); cached = _get_cached(ck); a hit is returned,
\* a miss is computed and _set_cached(ck, result).
KeySearch(params) ==
    /\ kreqs < MaxKeyRequests
    /\ kreqs' = kreqs + 1
    /\ LET ck == _cache_key(params)
           hits == {e \in kcache : e.key = ck}
       IN  IF hits # {}
           THEN /\ kreq' = [params |-> params, cached |-> TRUE,
                            served |-> (CHOOSE e \in hits : TRUE).params]
                /\ UNCHANGED kcache
           ELSE /\ kreq' = [params |-> params, cached |-> FALSE, served |-> params]
                /\ kcache' = kcache \cup {[key |-> ck, params |-> params]}
    /\ UNCHANGED notKey

NextKey == \E params \in ParamTuples : KeySearch(params)

\* C37: a search request is never answered with the cached result of a
\* request whose parameter tuple differs: the key string built from the
\* tuple is injective.
C37_KeyInjective ==
    /\ kreq.cached => kreq.served = kreq.params
    /\ \A e, f \in kcache : e.key = f.key => e.params = f.params

----------------------------------------------------------------------------
(***************************************************************************)
(* Vector store: the two files at the moments the process may stop         *)
(***************************************************************************)

\* C39: at every moment, inside add_vector and rebuild as well, the index
\* file and the mapping file on disk describe the same number of entries, so
\* a store loaded from them has len(mapping) = index.ntotal.
C39_FilesConsistent ==
    Len(LoadMapping(mappingFile)) = Len(ReadIndex(indexFile))

----------------------------------------------------------------------------
(***************************************************************************)
(* Aggregate stats: older snapshots over newer ones                        *)
(***************************************************************************)

\* C40: under every interleaving of record mutations, their refreshes and
\* concurrent get_or_compute calls, a refresh or a read that started earlier
\* never replaces a snapshot by one computed from an older state of the
\* records, neither the durable one nor the in-memory one (so that both end
\* equal to a recompute over the current records).
C40_NeverOlderOverNewer ==
    [][/\ (statsDoc # NoDoc /\ statsDoc' # NoDoc) => statsDoc'.ver >= statsDoc.ver
       /\ mem_cache'.ver >= mem_cache.ver]_vars

\* ==== Specifications ====
\* Every component starts as its module leaves it at import time.
RestInit == AliasInit /\ DedupInit(NoQuestions) /\ ExpInit /\ KeyInit /\ UsrInit /\ SrInit /\ OwnInit

\* The frequent-question computation starts from any scanned records.
InitDedup ==
    \E snaps \in ScannedSnapshots :
        LedgerInit /\ FaissInit /\ StatsInit(NoDoc) /\ CacheInit /\ AliasInit /\ DedupInit(snaps) /\ ExpInit /\ KeyInit /\ UsrInit /\ SrInit /\ OwnInit

Init == LedgerInit /\ FaissInit /\ StatsInit(NoDoc) /\ CacheInit /\ RestInit
\* The same, with the dashboard_stats document an earlier run left in the store.
InitStats ==
    \E doc \in {NoDoc, OldSchemaDoc} :
        LedgerInit /\ FaissInit /\ StatsInit(doc) /\ CacheInit /\ RestInit

\* Practice-list requests of the workers.
SpecLedger == Init /\ [][NextLedger]_vars
\* The same with the startup reconciliation of the roll-up.
SpecRepair == Init /\ [][NextRepair]_vars
SpecSequential == Init /\ [][NextSequential]_vars
SpecQuietRepair == Init /\ [][NextQuietRepair]_vars
SpecReconcile == Init /\ [][NextReconcile]_vars
\* Calls on the vector store, searches and process restarts.
SpecFaiss == Init /\ [][NextFaiss]_vars
\* Dashboard readers, refresh threads and the requests that change the collection.
SpecStats == InitStats /\ [][NextStats]_vars
\* Gets and puts on the two TTL caches while time passes.
SpecCache == Init /\ [][NextCache]_vars
\* The three TTL caches side by side, with pauses longer than their TTLs.
SpecExpiry == Init /\ [][NextExpiry]_vars
\* Both caches with their evictions recorded.
SpecEvict == Init /\ [][NextEvict]_vars
SpecAlias == Init /\ [][NextAlias]_vars
SpecDedup == InitDedup /\ [][NextDedup]_vars
SpecExp == Init /\ [][NextExp]_vars
SpecExpLive == Init /\ [][NextExpAvailable]_vars /\ ExpFairness
SpecKey == Init /\ [][NextKey]_vars
SpecSr == Init /\ [][NextSr]_vars
SpecUsr == Init /\ [][NextUsr]_vars
SpecOwn == Init /\ [][NextOwn]_vars

====
